---- MODULE Spec2Model ----
(***************************************************************************)
(* Model of the registry push engine of estebanreyl/image-gen-test:        *)
(*   - the artifact/index builder and the test-matrix runner               *)
(*     (pkg/registry/proxy.go, and the older copy kept as part_000),       *)
(*   - the authenticated transport (pkg/registry/transport.go).            *)
(* Byte strings are TLA+ strings, a digest is the algorithm prefix put in  *)
(* front of the hashed bytes (an injective stand-in for SHA-256), a size   *)
(* is the length of the string.                                            *)
(***************************************************************************)
EXTENDS Integers, Sequences, FiniteSets, TLC

(* ------------------------------ bounds --------------------------------- *)

\* number of injected transfer failures one run may suffer
MaxFaults == 2

\* largest layercount pushOCIArtifact is called with on its own
MaxLayers == 3

\* number of roundTrip calls made with one transport
MaxCalls == 2

\* length of the longest byte sequence behind a hashing reader
MaxData == 4

\* length of the longest buffer handed to Read
MaxChunk == 3

\* number of Read calls on one hashing reader
MaxReads == 4

(* ------------------------- program constants --------------------------- *)

imagegenConfigMediaType == "application/acr.imagegent.test"
imagegenArtifactType == "application/acr.imagegent.artifact.test"
tagPrefix == "genimage"
checkHealthMediaType == "application/acr.checkhealth.test"
MediaTypeImageLayer == "application/vnd.oci.image.layer.v1.tar"
MediaTypeImageManifest == "application/vnd.oci.image.manifest.v1+json"
MediaTypeImageIndex == "application/vnd.oci.image.index.v1+json"
MediaTypeScratch == "application/vnd.oci.scratch.v1+json"

\* the two copies of the builder: pkg/registry/proxy.go and part_000
Variants == {"proxy", "part_000"}

\* layer count of every simple image the program pushes
SimpleImageLayers == 2

\* number of simple images GenerateOCIIndex pushes
IndexImages(v) == IF v = "proxy" THEN 11 ELSE 10

\* json.Marshal(ociConfig): an Image holding only the author
ociConfigBytes(v) ==
    IF v = "proxy" THEN "{author:esrey}" ELSE "{author:ACR Check Health}"

\* digest.FromBytes
FromBytes(b) == "sha256:" \o b

\* the zero Descriptor
EmptyDescriptor == [MediaType |-> "", Digest |-> "", Size |-> 0, Data |-> ""]

\* ociimagespec.ScratchDescriptor
ScratchDescriptor ==
    [MediaType |-> MediaTypeScratch, Digest |-> FromBytes("{}"),
     Size |-> 2, Data |-> "{}"]

\* a Descriptor literal as the builder writes it: digest, size and media type
Descriptor(mt, dg, sz) ==
    [MediaType |-> mt, Digest |-> dg, Size |-> sz, Data |-> ""]

\* the fixed table of GenerateOCIArtifacts (entry i of the code is opts[i+1])
opts ==
    << [includesArtifactType |-> TRUE,  configIsScratch |-> TRUE,
        layersAreScratch |-> TRUE,  layercount |-> 1, hasSubject |-> TRUE,
        subjectInRegistry |-> TRUE,  errorExpected |-> FALSE],
       [includesArtifactType |-> TRUE,  configIsScratch |-> FALSE,
        layersAreScratch |-> FALSE, layercount |-> 3, hasSubject |-> TRUE,
        subjectInRegistry |-> TRUE,  errorExpected |-> FALSE],
       [includesArtifactType |-> FALSE, configIsScratch |-> TRUE,
        layersAreScratch |-> TRUE,  layercount |-> 1, hasSubject |-> TRUE,
        subjectInRegistry |-> TRUE,  errorExpected |-> TRUE],
       [includesArtifactType |-> TRUE,  configIsScratch |-> TRUE,
        layersAreScratch |-> FALSE, layercount |-> 1, hasSubject |-> TRUE,
        subjectInRegistry |-> TRUE,  errorExpected |-> FALSE],
       [includesArtifactType |-> FALSE, configIsScratch |-> FALSE,
        layersAreScratch |-> TRUE,  layercount |-> 1, hasSubject |-> TRUE,
        subjectInRegistry |-> TRUE,  errorExpected |-> FALSE],
       [includesArtifactType |-> TRUE,  configIsScratch |-> TRUE,
        layersAreScratch |-> TRUE,  layercount |-> 1, hasSubject |-> FALSE,
        subjectInRegistry |-> FALSE, errorExpected |-> FALSE],
       [includesArtifactType |-> FALSE, configIsScratch |-> TRUE,
        layersAreScratch |-> TRUE,  layercount |-> 1, hasSubject |-> FALSE,
        subjectInRegistry |-> FALSE, errorExpected |-> FALSE],
       [includesArtifactType |-> TRUE,  configIsScratch |-> TRUE,
        layersAreScratch |-> FALSE, layercount |-> 0, hasSubject |-> FALSE,
        subjectInRegistry |-> FALSE, errorExpected |-> TRUE] >>

(* ------------------------------ JSON ----------------------------------- *)

\* json.Marshal of a Descriptor (data is omitted when empty)
MarshalDescriptor(d) ==
    "{mediaType:" \o d.MediaType \o ",digest:" \o d.Digest
        \o ",size:" \o ToString(d.Size)
        \o (IF d.Data = "" THEN "" ELSE ",data:" \o d.Data) \o "}"

RECURSIVE MarshalDescriptors(_)
\* json.Marshal of the elements of a Descriptor slice, comma separated
MarshalDescriptors(ds) ==
    IF ds = << >> THEN ""
    ELSE MarshalDescriptor(Head(ds))
            \o (IF Len(ds) > 1 THEN "," ELSE "")
            \o MarshalDescriptors(Tail(ds))

\* json.Marshal of a Manifest; m.Subject is a pointer: <<>> is nil, <<d>>
\* points at d.  A nil slice of layers is written as null.
MarshalManifest(m) ==
    "{schemaVersion:2,mediaType:" \o m.MediaType
        \o (IF m.ArtifactType = "" THEN ""
            ELSE ",artifactType:" \o m.ArtifactType)
        \o ",config:" \o MarshalDescriptor(m.Config)
        \o ",layers:" \o (IF m.Layers = << >> THEN "null"
                          ELSE "[" \o MarshalDescriptors(m.Layers) \o "]")
        \o (IF m.Subject = << >> THEN ""
            ELSE ",subject:" \o MarshalDescriptor(m.Subject[1]))
        \o "}"

\* json.Marshal of an Index
MarshalIndex(ix) ==
    "{schemaVersion:2"
        \o (IF ix.MediaType = "" THEN "" ELSE ",mediaType:" \o ix.MediaType)
        \o ",manifests:" \o (IF ix.Manifests = << >> THEN "null"
                             ELSE "[" \o MarshalDescriptors(ix.Manifests) \o "]")
        \o "}"

(* --------------------------- uploadBytes ------------------------------- *)

\* What the push capability does with one upload:
\*   "exists"   Push reports that the content is already there
\*   "pusherr"  Push fails with any other error
\*   "ok"       Push hands out a writer and the copy commits
\*   "copyerr"  Push hands out a writer and the copy fails
\*   "rejected" Push hands out a writer and the registry refuses the commit
ErrPush == "push: unexpected status"
ErrCopy == "copy: failed"
ErrRejected == "commit: manifest invalid"

\* uploadBytes with the already-exists test left out: the error of Push is
\* returned whatever it is
uploadBytes_existsIsError(desc, data, outcome) ==
    IF outcome = "exists"
    THEN [err |-> "content already exists", sent |-> "", writer |-> FALSE, closed |-> FALSE]
    ELSE IF outcome = "pusherr" THEN [err |-> ErrPush, sent |-> "", writer |-> FALSE, closed |-> FALSE]
    ELSE IF outcome = "copyerr" THEN [err |-> ErrCopy, sent |-> "", writer |-> TRUE, closed |-> TRUE]
    ELSE IF outcome = "rejected" THEN [err |-> ErrRejected, sent |-> data, writer |-> TRUE, closed |-> TRUE]
    ELSE [err |-> "", sent |-> data, writer |-> TRUE, closed |-> TRUE]

\* uploadBytes: the error returned ("" is nil), the bytes streamed to the
\* writer, and whether a writer was obtained and closed.
uploadBytes(desc, data, outcome) ==
    IF outcome = "exists" THEN [err |-> "", sent |-> "", writer |-> FALSE, closed |-> FALSE]
    ELSE IF outcome = "pusherr" THEN [err |-> ErrPush, sent |-> "", writer |-> FALSE, closed |-> FALSE]
    ELSE IF outcome = "copyerr" THEN [err |-> ErrCopy, sent |-> "", writer |-> TRUE, closed |-> TRUE]
    ELSE IF outcome = "rejected" THEN [err |-> ErrRejected, sent |-> data, writer |-> TRUE, closed |-> TRUE]
    ELSE [err |-> "", sent |-> data, writer |-> TRUE, closed |-> TRUE]

(* ------------------------------ state ---------------------------------- *)

VARIABLES
    variant,      \* which copy of the builder runs ("proxy" or "part_000")
    op,           \* the command: "GenerateOCIArtifacts" or "GenerateOCIIndex"
    hasMediaType, \* argument of GenerateOCIIndex
    strict,       \* the registry enforces its manifest rules
    pc,           \* position of the single thread of control
    i,            \* loop index of the running command
    tag,          \* tag of GenerateOCIIndex
    frame,        \* locals of the running pushOCIImage / pushOCIArtifact
    ret,          \* (descriptor, error) returned by the last build
    subjectDesc,  \* descriptor of the up-front subject image
    Manifests,    \* descriptors collected by GenerateOCIIndex
    results,      \* what the runner logged for each table entry
    runErr,       \* error returned by the command ("" is nil)
    now,          \* clock: every reading of time.Now() is later than the last
    store,        \* digests present in the registry
    faults,       \* injected failures so far
    calls,        \* every uploadBytes call issued so far, in order
    args,         \* the arguments newTransport was called with
    t,            \* the transport built by newTransport
    regReq,       \* the registryRequest handed to roundTrip
    tpc,          \* position of the running roundTrip
    req,          \* the real request roundTrip is preparing
    params,       \* challenge parameters handed to getToken
    trips,        \* every request given to the tripper, with its result
    out,          \* (tripInfo, err) returned by roundTrip
    past,         \* the earlier roundTrip calls of this transport, in order
    rpc,          \* "open" while a hashing reader is in use
    source,       \* bytes the underlying reader has not yet delivered
    reader,       \* the ReaderWithContext: its hash state and its n
    got,          \* every byte Read has returned to the caller, in order
    lastRead,     \* (n, err) of the last Read and the underlying error
    reads,        \* number of Read calls so far
    hpc,          \* position of the running RoundTripperWithContext.RoundTrip
    resp,         \* what r.Base.RoundTrip returned
    closes,       \* number of times resp.Body was closed
    hout          \* (info, err) of RoundTrip

static == <<variant, op, hasMediaType, strict>>

rvars == <<rpc, source, reader, got, lastRead, reads>>

hvars == <<hpc, resp, closes, hout>>

tvars == <<args, t, regReq, tpc, req, params, trips, out, past>>

bvars == <<variant, op, hasMediaType, strict, pc, i, tag, frame, ret, subjectDesc,
           Manifests, results, runErr, now, store, faults, calls>>

vars == <<variant, op, hasMediaType, strict, pc, i, tag, frame, ret, subjectDesc,
          Manifests, results, runErr, now, store, faults, calls,
          args, t, regReq, tpc, req, params, trips, out, past,
          rpc, source, reader, got, lastRead, reads,
          hpc, resp, closes, hout>>

NoFrame ==
    [fn |-> "", build |-> 0, tag |-> "", layercount |-> 0, j |-> 0,
     configDesc |-> EmptyDescriptor, layerDescs |-> << >>,
     opts |-> opts[1], subject |-> EmptyDescriptor]

NoRet == [desc |-> EmptyDescriptor, err |-> ""]

\* build number of the up-front subject image (table entries are 0..7)
SubjectBuild == -1

\* content a previous run of the same tool may have left in the
\* repository: the scratch blob and its config
LeftOver == {ScratchDescriptor.Digest, FromBytes(ociConfigBytes(variant))}

(* ----------------------- the push capability --------------------------- *)

\* content.Copy commits only bytes of the declared size and digest
Matches(desc, data) == desc.Digest = FromBytes(data) /\ desc.Size = Len(data)

\* the outcomes the registry can give one upload: content that is present
\* is reported as existing, anything else is written; a transfer may fail
\* while the budget of injected failures lasts.
Outcomes(desc, data) ==
    (IF desc.Digest \in store THEN {"exists"}
     ELSE IF Matches(desc, data) THEN {"ok"} ELSE {"copyerr"})
    \cup (IF faults < MaxFaults
          THEN {"pusherr"} \cup (IF desc.Digest \in store THEN {} ELSE {"copyerr"})
          ELSE {})

Injected(desc, data, outcome) ==
    \/ outcome = "pusherr"
    \/ outcome = "copyerr" /\ Matches(desc, data)

\* the manifests a registry that enforces its rules refuses: one that
\* names a config, layer or subject it does not hold, one that uses the
\* scratch config without an artifact type, one without layers
Rejects(doc) ==
    \/ \E d \in {doc.Config.Digest}
                \cup {doc.Layers[k].Digest : k \in 1..Len(doc.Layers)} :
            d \notin store
    \/ doc.Subject # << >> /\ doc.Subject[1].Digest \notin store
    \/ doc.Config.Digest = ScratchDescriptor.Digest /\ doc.ArtifactType = ""
    \/ doc.Layers = << >>

\* the outcomes the registry can give the upload of a manifest
ManifestOutcomes(desc, data, doc) ==
    IF strict /\ desc.Digest \notin store /\ Rejects(doc)
    THEN {"rejected"} \cup (IF faults < MaxFaults THEN {"pusherr"} ELSE {})
    ELSE Outcomes(desc, data)

\* resolver.Pusher(ctx, ref): a pusher, or an error
PusherOutcomes == {"ok"} \cup (IF faults < MaxFaults THEN {"err"} ELSE {})

ErrPusher == "resolver: invalid reference"

\* one uploadBytes call and its effect on the registry, as the log entry
CallRec(kind, idx, desc, data, outcome, doc) ==
    LET u == uploadBytes(desc, data, outcome)
    IN  [fn |-> frame.fn, build |-> frame.build, kind |-> kind, idx |-> idx,
         desc |-> desc, data |-> data, outcome |-> outcome, err |-> u.err,
         sent |-> u.sent, writer |-> u.writer, closed |-> u.closed,
         present |-> desc.Digest \in store, doc |-> doc]

Upload(kind, idx, desc, data, outcome, doc) ==
    /\ calls' = Append(calls, CallRec(kind, idx, desc, data, outcome, doc))
    /\ store' = IF outcome = "ok" THEN store \cup {desc.Digest} ELSE store
    /\ faults' = IF Injected(desc, data, outcome) THEN faults + 1 ELSE faults

\* the build fails before any upload because no pusher could be obtained
NoPusher ==
    /\ faults' = faults + 1
    /\ ret' = [desc |-> EmptyDescriptor, err |-> ErrPusher]
    /\ UNCHANGED <<calls, store, frame, now>>

(* ------------------------- pushOCIImage -------------------------------- *)

configMediaType(v) ==
    IF v = "proxy" THEN imagegenConfigMediaType ELSE checkHealthMediaType

\* the locals of a pushOCIImage call
ImageFrame(build, tg, layercount) ==
    [NoFrame EXCEPT !.fn = "pushOCIImage", !.build = build, !.tag = tg,
                    !.layercount = layercount]

\* the bytes pushOCIImage synthesizes for layer j
imageLayerBytes(v, tg, j, time) ==
    IF v = "proxy"
    THEN "TestLayer " \o tg \o " " \o ToString(j) \o "-at-time " \o ToString(time)
    ELSE "Test layer authored by ACR Check Health at " \o ToString(time)
            \o "%!(EXTRA int=" \o ToString(j) \o ")"

\* the descriptor pushOCIImage pairs with the bytes of a layer
imageLayerDesc(v, layerBytes, configBytes) ==
    IF v = "proxy"
    THEN Descriptor(MediaTypeImageLayer, FromBytes(layerBytes), Len(layerBytes))
    ELSE Descriptor(MediaTypeImageLayer, FromBytes(configBytes), Len(configBytes))

\* the manifest of a simple image
imageManifest(configDesc, layerDescs) ==
    [MediaType |-> MediaTypeImageManifest, ArtifactType |-> "",
     Config |-> configDesc, Layers |-> layerDescs, Subject |-> << >>]

\* pushOCIImage up to the config upload
pushOCIImage_config ==
    /\ pc = "img_config"
    /\ \E p \in PusherOutcomes :
        IF p = "err"
        THEN NoPusher /\ pc' = "img_ret"
        ELSE LET configBytes == ociConfigBytes(variant)
                 configDesc == Descriptor(configMediaType(variant),
                                          FromBytes(configBytes), Len(configBytes))
             IN \E o \in Outcomes(configDesc, configBytes) :
                  /\ Upload("config", 0, configDesc, configBytes, o, << >>)
                  /\ IF uploadBytes(configDesc, configBytes, o).err # ""
                     THEN /\ ret' = [desc |-> EmptyDescriptor,
                                     err |-> uploadBytes(configDesc, configBytes, o).err]
                          /\ pc' = "img_ret"
                          /\ UNCHANGED frame
                     ELSE /\ frame' = [frame EXCEPT !.configDesc = configDesc, !.j = 0]
                          /\ pc' = IF 0 < frame.layercount THEN "img_layer"
                                   ELSE "img_manifest"
                          /\ UNCHANGED ret
                  /\ UNCHANGED now
    /\ UNCHANGED <<hvars, rvars, tvars, static, i, tag, subjectDesc, Manifests, results, runErr>>

\* the layer loop of pushOCIImage with the error of uploadBytes dropped:
\* the loop goes on after a failed layer
pushOCIImage_layer_ignoresError ==
    /\ pc = "img_layer"
    /\ frame.j < frame.layercount
    /\ LET layerBytes == imageLayerBytes(variant, frame.tag, frame.j, now)
           layerDesc == imageLayerDesc(variant, layerBytes, ociConfigBytes(variant))
       IN \E o \in Outcomes(layerDesc, layerBytes) :
            /\ Upload("layer", frame.j, layerDesc, layerBytes, o, << >>)
            /\ frame' = [frame EXCEPT !.layerDescs = Append(@, layerDesc),
                                      !.j = @ + 1]
            /\ pc' = IF frame.j + 1 < frame.layercount THEN "img_layer"
                     ELSE "img_manifest"
            /\ UNCHANGED ret
    /\ now' = now + 1
    /\ UNCHANGED <<hvars, rvars, tvars, static, i, tag, subjectDesc, Manifests, results, runErr>>

\* one iteration of the layer loop of pushOCIImage
pushOCIImage_layer ==
    /\ pc = "img_layer"
    /\ frame.j < frame.layercount
    /\ LET layerBytes == imageLayerBytes(variant, frame.tag, frame.j, now)
           layerDesc == imageLayerDesc(variant, layerBytes, ociConfigBytes(variant))
       IN \E o \in Outcomes(layerDesc, layerBytes) :
            /\ Upload("layer", frame.j, layerDesc, layerBytes, o, << >>)
            /\ IF uploadBytes(layerDesc, layerBytes, o).err # ""
               THEN /\ ret' = [desc |-> EmptyDescriptor,
                               err |-> uploadBytes(layerDesc, layerBytes, o).err]
                    /\ pc' = "img_ret"
                    /\ UNCHANGED frame
               ELSE /\ frame' = [frame EXCEPT
                                    !.layerDescs = Append(@, layerDesc),
                                    !.j = @ + 1]
                    /\ pc' = IF frame.j + 1 < frame.layercount THEN "img_layer"
                             ELSE "img_manifest"
                    /\ UNCHANGED ret
    /\ now' = now + 1
    /\ UNCHANGED <<hvars, rvars, tvars, static, i, tag, subjectDesc, Manifests, results, runErr>>

\* pushOCIImage from the assembly of the manifest to its return
pushOCIImage_manifest ==
    /\ pc = "img_manifest"
    /\ LET ociManifest == imageManifest(frame.configDesc, frame.layerDescs)
           manifestBytes == MarshalManifest(ociManifest)
           manifestDesc == Descriptor(MediaTypeImageManifest,
                                      FromBytes(manifestBytes), Len(manifestBytes))
       IN \E o \in ManifestOutcomes(manifestDesc, manifestBytes, ociManifest) :
            /\ Upload("manifest", 0, manifestDesc, manifestBytes, o, <<ociManifest>>)
            /\ ret' = IF uploadBytes(manifestDesc, manifestBytes, o).err # ""
                      THEN [desc |-> EmptyDescriptor,
                            err |-> uploadBytes(manifestDesc, manifestBytes, o).err]
                      ELSE [desc |-> manifestDesc, err |-> ""]
    /\ pc' = "img_ret"
    /\ UNCHANGED <<hvars, rvars, tvars, static, i, tag, frame, subjectDesc, Manifests, results,
                   runErr, now>>

(* ------------------------ pushOCIArtifact ------------------------------ *)

\* the locals of a pushOCIArtifact call
ArtifactFrame(build, tg, o, subject) ==
    [NoFrame EXCEPT !.fn = "pushOCIArtifact", !.build = build, !.tag = tg,
                    !.layercount = o.layercount, !.opts = o,
                    !.subject = subject]

\* the config bytes pushOCIArtifact uploads
artifactConfigBytes(o) ==
    IF o.configIsScratch THEN ScratchDescriptor.Data ELSE ociConfigBytes("proxy")

\* the config descriptor pushOCIArtifact uploads: the scratch descriptor,
\* with media type, digest and size overwritten for a real config
artifactConfigDescriptor(o) ==
    IF o.configIsScratch THEN ScratchDescriptor
    ELSE [ScratchDescriptor EXCEPT
            !.MediaType = imagegenConfigMediaType,
            !.Digest = FromBytes(ociConfigBytes("proxy")),
            !.Size = Len(ociConfigBytes("proxy"))]

\* the bytes pushOCIArtifact synthesizes for a regular layer
artifactLayerBytes(tg, j, time) ==
    "TestLayer " \o tg \o " " \o ToString(j) \o "-at-time " \o ToString(time)

\* the manifest with the artifact type set whatever the options say
artifactManifest_alwaysTyped(o, layerDescs, subject) ==
    [MediaType |-> MediaTypeImageManifest,
     ArtifactType |-> imagegenArtifactType,
     Config |-> ScratchDescriptor, Layers |-> layerDescs,
     Subject |-> <<subject>>]

\* the manifest pushOCIArtifact assembles
artifactManifest(o, layerDescs, subject) ==
    [MediaType |-> MediaTypeImageManifest,
     ArtifactType |-> IF o.includesArtifactType THEN imagegenArtifactType ELSE "",
     Config |-> ScratchDescriptor, Layers |-> layerDescs,
     Subject |-> <<subject>>]

\* pushOCIArtifact up to the config upload, the error of which is not
\* looked at
pushOCIArtifact_config_ignoresError ==
    /\ pc = "art_config"
    /\ \E p \in PusherOutcomes :
        IF p = "err"
        THEN NoPusher /\ pc' = "art_ret"
        ELSE LET configBytes == artifactConfigBytes(frame.opts)
                 configDescriptor == artifactConfigDescriptor(frame.opts)
             IN \E o \in Outcomes(configDescriptor, configBytes) :
                  /\ Upload("config", 0, configDescriptor, configBytes, o, << >>)
                  /\ frame' = [frame EXCEPT !.configDesc = configDescriptor,
                                            !.j = 0]
                  /\ pc' = IF 0 < frame.layercount THEN "art_layer"
                           ELSE "art_manifest"
                  /\ UNCHANGED <<ret, now>>
    /\ UNCHANGED <<hvars, rvars, tvars, static, i, tag, subjectDesc, Manifests, results, runErr>>

\* pushOCIArtifact up to the config upload
pushOCIArtifact_config ==
    /\ pc = "art_config"
    /\ \E p \in PusherOutcomes :
        IF p = "err"
        THEN NoPusher /\ pc' = "art_ret"
        ELSE LET configBytes == artifactConfigBytes(frame.opts)
                 configDescriptor == artifactConfigDescriptor(frame.opts)
             IN \E o \in Outcomes(configDescriptor, configBytes) :
                  /\ Upload("config", 0, configDescriptor, configBytes, o, << >>)
                  /\ IF uploadBytes(configDescriptor, configBytes, o).err # ""
                     THEN /\ ret' = [desc |-> EmptyDescriptor,
                                     err |-> uploadBytes(configDescriptor, configBytes, o).err]
                          /\ pc' = "art_ret"
                          /\ UNCHANGED frame
                     ELSE /\ frame' = [frame EXCEPT !.configDesc = configDescriptor,
                                                    !.j = 0]
                          /\ pc' = IF 0 < frame.layercount THEN "art_layer"
                                   ELSE "art_manifest"
                          /\ UNCHANGED ret
                  /\ UNCHANGED now
    /\ UNCHANGED <<hvars, rvars, tvars, static, i, tag, subjectDesc, Manifests, results, runErr>>

\* one iteration of the layer loop where the scratch blob is uploaded for
\* every scratch layer
pushOCIArtifact_layer_uploadsEach ==
    /\ pc = "art_layer"
    /\ frame.j < frame.layercount
    /\ LET next == IF frame.j + 1 < frame.layercount THEN "art_layer"
                   ELSE "art_manifest"
       IN IF frame.opts.layersAreScratch
          THEN IF ~frame.opts.configIsScratch
               THEN \E o \in Outcomes(ScratchDescriptor, ScratchDescriptor.Data) :
                      /\ Upload("scratch", frame.j, ScratchDescriptor,
                                ScratchDescriptor.Data, o, << >>)
                      /\ IF uploadBytes(ScratchDescriptor, ScratchDescriptor.Data, o).err # ""
                         THEN /\ ret' = [desc |-> EmptyDescriptor,
                                         err |-> uploadBytes(ScratchDescriptor,
                                                    ScratchDescriptor.Data, o).err]
                              /\ pc' = "art_ret"
                              /\ UNCHANGED frame
                         ELSE /\ frame' = [frame EXCEPT
                                    !.layerDescs = Append(@, ScratchDescriptor),
                                    !.j = @ + 1]
                              /\ pc' = next
                              /\ UNCHANGED ret
                      /\ UNCHANGED now
               ELSE /\ frame' = [frame EXCEPT
                                    !.layerDescs = Append(@, ScratchDescriptor),
                                    !.j = @ + 1]
                    /\ pc' = next
                    /\ UNCHANGED <<ret, now, calls, store, faults>>
          ELSE LET layerBytes == artifactLayerBytes(frame.tag, frame.j, now)
                   layerDesc == Descriptor(MediaTypeImageLayer,
                                           FromBytes(layerBytes), Len(layerBytes))
               IN /\ frame' = [frame EXCEPT
                                    !.layerDescs = Append(@, layerDesc),
                                    !.j = @ + 1]
                  /\ now' = now + 1
                  /\ pc' = next
                  /\ UNCHANGED <<ret, calls, store, faults>>
    /\ UNCHANGED <<hvars, rvars, tvars, static, i, tag, subjectDesc, Manifests, results, runErr>>

\* one iteration of the layer loop of pushOCIArtifact
pushOCIArtifact_layer ==
    /\ pc = "art_layer"
    /\ frame.j < frame.layercount
    /\ LET next == IF frame.j + 1 < frame.layercount THEN "art_layer"
                   ELSE "art_manifest"
       IN IF frame.opts.layersAreScratch
          THEN IF ~frame.opts.configIsScratch /\ frame.j = 0
               THEN \E o \in Outcomes(ScratchDescriptor, ScratchDescriptor.Data) :
                      /\ Upload("scratch", frame.j, ScratchDescriptor,
                                ScratchDescriptor.Data, o, << >>)
                      /\ IF uploadBytes(ScratchDescriptor, ScratchDescriptor.Data, o).err # ""
                         THEN /\ ret' = [desc |-> EmptyDescriptor,
                                         err |-> uploadBytes(ScratchDescriptor,
                                                    ScratchDescriptor.Data, o).err]
                              /\ pc' = "art_ret"
                              /\ UNCHANGED frame
                         ELSE /\ frame' = [frame EXCEPT
                                    !.layerDescs = Append(@, ScratchDescriptor),
                                    !.j = @ + 1]
                              /\ pc' = next
                              /\ UNCHANGED ret
                      /\ UNCHANGED now
               ELSE /\ frame' = [frame EXCEPT
                                    !.layerDescs = Append(@, ScratchDescriptor),
                                    !.j = @ + 1]
                    /\ pc' = next
                    /\ UNCHANGED <<ret, now, calls, store, faults>>
          ELSE LET layerBytes == artifactLayerBytes(frame.tag, frame.j, now)
                   layerDesc == Descriptor(MediaTypeImageLayer,
                                           FromBytes(layerBytes), Len(layerBytes))
               IN /\ frame' = [frame EXCEPT
                                    !.layerDescs = Append(@, layerDesc),
                                    !.j = @ + 1]
                  /\ now' = now + 1
                  /\ pc' = next
                  /\ UNCHANGED <<ret, calls, store, faults>>
    /\ UNCHANGED <<hvars, rvars, tvars, static, i, tag, subjectDesc, Manifests, results, runErr>>

\* pushOCIArtifact from the assembly of the manifest to its return
pushOCIArtifact_manifest ==
    /\ pc = "art_manifest"
    /\ LET ociManifest == artifactManifest(frame.opts, frame.layerDescs, frame.subject)
           manifestBytes == MarshalManifest(ociManifest)
           manifestDesc == Descriptor(MediaTypeImageManifest,
                                      FromBytes(manifestBytes), Len(manifestBytes))
       IN \E o \in ManifestOutcomes(manifestDesc, manifestBytes, ociManifest) :
            /\ Upload("manifest", 0, manifestDesc, manifestBytes, o, <<ociManifest>>)
            /\ ret' = IF uploadBytes(manifestDesc, manifestBytes, o).err # ""
                      THEN [desc |-> EmptyDescriptor,
                            err |-> uploadBytes(manifestDesc, manifestBytes, o).err]
                      ELSE [desc |-> manifestDesc, err |-> ""]
    /\ pc' = "art_ret"
    /\ UNCHANGED <<hvars, rvars, tvars, static, i, tag, frame, subjectDesc, Manifests, results,
                   runErr, now>>

(* --------------------- GenerateOCIArtifacts ---------------------------- *)

\* uuid.New().String() of table entry n: a fresh identifier
uuidStr(n) == "uuid-" \o ToString(n)

\* the subject for a table entry with the test of subjectInRegistry
\* inverted
entrySubject_inverted(o, n, sd) ==
    IF o.hasSubject
    THEN IF ~o.subjectInRegistry THEN sd
         ELSE Descriptor(MediaTypeImageIndex, FromBytes(uuidStr(n)), Len(uuidStr(n)))
    ELSE EmptyDescriptor

\* the subject handed to pushOCIArtifact for a table entry
entrySubject(o, n, sd) ==
    IF o.hasSubject
    THEN IF o.subjectInRegistry THEN sd
         ELSE Descriptor(MediaTypeImageIndex, FromBytes(uuidStr(n)), Len(uuidStr(n)))
    ELSE EmptyDescriptor

\* the classification with the test of errorExpected inverted
Classify_inverted(err, errorExpected) ==
    IF err # ""
    THEN IF ~errorExpected
         THEN << [level |-> "info", msg |-> "Received Expected Error: " \o err],
                 [level |-> "info", msg |-> "Success"] >>
         ELSE << [level |-> "error", msg |-> "Received Unexpected Error: " \o err] >>
    ELSE << [level |-> "info", msg |-> "Success"] >>

\* the lines the runner logs after the title of a case
Classify(err, errorExpected) ==
    IF err # ""
    THEN IF errorExpected
         THEN << [level |-> "info", msg |-> "Received Expected Error: " \o err],
                 [level |-> "info", msg |-> "Success"] >>
         ELSE << [level |-> "error", msg |-> "Received Unexpected Error: " \o err] >>
    ELSE << [level |-> "info", msg |-> "Success"] >>

\* GenerateOCIArtifacts up to the call that pushes the subject image
GenerateOCIArtifacts_start ==
    /\ pc = "start"
    /\ op = "GenerateOCIArtifacts"
    /\ frame' = ImageFrame(SubjectBuild, "oci-subject", SimpleImageLayers)
    /\ pc' = "img_config"
    /\ UNCHANGED <<hvars, rvars, tvars, static, i, tag, ret, subjectDesc, Manifests, results, runErr,
                   now, store, faults, calls>>

\* the return of the subject push where its error is not looked at
GenerateOCIArtifacts_subject_ignoresError ==
    /\ pc = "img_ret"
    /\ op = "GenerateOCIArtifacts"
    /\ subjectDesc' = ret.desc
    /\ pc' = "loop"
    /\ i' = 0
    /\ UNCHANGED <<hvars, rvars, tvars, static, tag, frame, ret, Manifests, results, now, store,
                   faults, calls, runErr>>

\* the return of the subject push
GenerateOCIArtifacts_subject ==
    /\ pc = "img_ret"
    /\ op = "GenerateOCIArtifacts"
    /\ IF ret.err # ""
       THEN /\ runErr' = ret.err
            /\ pc' = "done"
            /\ UNCHANGED subjectDesc
       ELSE /\ subjectDesc' = ret.desc
            /\ pc' = "loop"
            /\ UNCHANGED runErr
    /\ i' = 0
    /\ UNCHANGED <<hvars, rvars, tvars, static, tag, frame, ret, Manifests, results, now, store,
                   faults, calls>>

\* the head of the loop body: the subject of entry i and the build call
GenerateOCIArtifacts_entry ==
    /\ pc = "loop"
    /\ i < Len(opts)
    /\ frame' = ArtifactFrame(i, tagPrefix \o "-oci-" \o ToString(i), opts[i + 1],
                              entrySubject(opts[i + 1], i, subjectDesc))
    /\ pc' = "art_config"
    /\ UNCHANGED <<hvars, rvars, tvars, static, i, tag, ret, subjectDesc, Manifests, results, runErr,
                   now, store, faults, calls>>

\* the loop body returning the error of an unexpected failure instead of
\* going on with the next entry
GenerateOCIArtifacts_classify_aborts ==
    /\ pc = "art_ret"
    /\ results' = Append(results,
                    [entry |-> i, err |-> ret.err,
                     errorExpected |-> frame.opts.errorExpected,
                     log |-> Classify(ret.err, frame.opts.errorExpected)])
    /\ i' = i + 1
    /\ IF ret.err # "" /\ ~frame.opts.errorExpected
       THEN pc' = "done" /\ runErr' = ret.err
       ELSE /\ pc' = IF i + 1 < Len(opts) THEN "loop" ELSE "done"
            /\ UNCHANGED runErr
    /\ UNCHANGED <<hvars, rvars, tvars, static, tag, frame, ret, subjectDesc, Manifests, now,
                   store, faults, calls>>

\* the loop body where the first unexpected error is kept and returned by
\* the command after the last entry
GenerateOCIArtifacts_classify_returnsError ==
    /\ pc = "art_ret"
    /\ results' = Append(results,
                    [entry |-> i, err |-> ret.err,
                     errorExpected |-> frame.opts.errorExpected,
                     log |-> Classify(ret.err, frame.opts.errorExpected)])
    /\ i' = i + 1
    /\ pc' = IF i + 1 < Len(opts) THEN "loop" ELSE "done"
    /\ runErr' = IF runErr = "" /\ ret.err # "" /\ ~frame.opts.errorExpected
                 THEN ret.err ELSE runErr
    /\ UNCHANGED <<hvars, rvars, tvars, static, tag, frame, ret, subjectDesc, Manifests, now,
                   store, faults, calls>>

\* the rest of the loop body: the case is logged and classified, and the
\* loop goes on or the command returns nil
GenerateOCIArtifacts_classify ==
    /\ pc = "art_ret"
    /\ results' = Append(results,
                    [entry |-> i, err |-> ret.err,
                     errorExpected |-> frame.opts.errorExpected,
                     log |-> Classify(ret.err, frame.opts.errorExpected)])
    /\ i' = i + 1
    /\ pc' = IF i + 1 < Len(opts) THEN "loop" ELSE "done"
    /\ UNCHANGED <<hvars, rvars, tvars, static, tag, frame, ret, subjectDesc, Manifests, runErr, now,
                   store, faults, calls>>

(* ----------------------- GenerateOCIIndex ------------------------------ *)

\* GenerateOCIIndex up to the loop: repository and tag from the clock
GenerateOCIIndex_start ==
    /\ pc = "start"
    /\ op = "GenerateOCIIndex"
    /\ tag' = ToString(now)
    /\ now' = now + 1
    /\ pc' = "idx_loop"
    /\ UNCHANGED <<hvars, rvars, tvars, static, i, frame, ret, subjectDesc, Manifests, results,
                   runErr, store, faults, calls>>

\* the call that pushes simple image i
GenerateOCIIndex_image ==
    /\ pc = "idx_loop"
    /\ i < IndexImages(variant)
    /\ frame' = ImageFrame(i, tag \o "-oci-" \o ToString(i), SimpleImageLayers)
    /\ pc' = "img_config"
    /\ UNCHANGED <<hvars, rvars, tvars, static, i, tag, ret, subjectDesc, Manifests, results, runErr,
                   now, store, faults, calls>>

\* the return of an image push where a failed push is skipped and the
\* loop goes on
GenerateOCIIndex_collect_skipsFailed ==
    /\ pc = "img_ret"
    /\ op = "GenerateOCIIndex"
    /\ IF ret.err # ""
       THEN /\ i' = i + 1
            /\ pc' = "idx_loop"
            /\ UNCHANGED <<Manifests, runErr>>
       ELSE /\ Manifests' = Append(Manifests, ret.desc)
            /\ i' = i + 1
            /\ pc' = "idx_loop"
            /\ UNCHANGED runErr
    /\ UNCHANGED <<hvars, rvars, tvars, static, tag, frame, ret, subjectDesc, results, now, store,
                   faults, calls>>

\* the return of an image push: its error is returned, or its descriptor
\* is collected
GenerateOCIIndex_collect ==
    /\ pc = "img_ret"
    /\ op = "GenerateOCIIndex"
    /\ IF ret.err # ""
       THEN /\ runErr' = ret.err
            /\ pc' = "done"
            /\ UNCHANGED <<Manifests, i>>
       ELSE /\ Manifests' = Append(Manifests, ret.desc)
            /\ i' = i + 1
            /\ pc' = "idx_loop"
            /\ UNCHANGED runErr
    /\ UNCHANGED <<hvars, rvars, tvars, static, tag, frame, ret, subjectDesc, results, now, store,
                   faults, calls>>

\* the index is assembled and uploaded
GenerateOCIIndex_upload ==
    /\ pc = "idx_loop"
    /\ i >= IndexImages(variant)
    /\ \E p \in PusherOutcomes :
        IF p = "err"
        THEN /\ faults' = faults + 1
             /\ runErr' = ErrPusher
             /\ UNCHANGED <<calls, store>>
        ELSE LET index == [MediaType |-> IF hasMediaType THEN MediaTypeImageIndex
                                         ELSE "",
                           Manifests |-> Manifests]
                 indexBytes == MarshalIndex(index)
                 indexDesc == Descriptor(MediaTypeImageIndex,
                                         FromBytes(indexBytes), Len(indexBytes))
             IN \E o \in Outcomes(indexDesc, indexBytes) :
                  /\ calls' = Append(calls,
                        [CallRec("index", 0, indexDesc, indexBytes, o, <<index>>)
                            EXCEPT !.fn = "GenerateOCIIndex",
                                   !.build = IndexImages(variant)])
                  /\ store' = IF o = "ok" THEN store \cup {indexDesc.Digest}
                              ELSE store
                  /\ faults' = IF Injected(indexDesc, indexBytes, o)
                               THEN faults + 1 ELSE faults
                  /\ runErr' = uploadBytes(indexDesc, indexBytes, o).err
    /\ pc' = "done"
    /\ UNCHANGED <<hvars, rvars, tvars, static, i, tag, frame, ret, subjectDesc, Manifests, results,
                   now>>

(* ===================== authenticated transport ========================= *)
(* Headers and URLs are sequences of characters, so that splitting, case   *)
(* folding and the regular expression are computed as the code does.       *)

noAuth == 0
basicAuth == 1
bearerAuth == 2

StatusOK == 200
StatusUnauthorized == 401
StatusNotFound == 404

schemeBearer ==
    <<"b","e","a","r","e","r">>

claimRealm ==
    <<"r","e","a","l","m">>

claimService ==
    <<"s","e","r","v","i","c","e">>

claimScope ==
    <<"s","c","o","p","e">>

UrlRegistry ==
    <<"h","t","t","p","s",":","/","/","r","/","v","2","/">>

UrlBad ==
    <<":","r">>

ChallengeFull ==
    <<"B","e","a","r","e","r"," ","r","e","a","l","m","=","\"","h","t","t",
      "p","s",":","/","/","a","/","t","\"",",","s","e","r","v","i","c","e",
      "=","\"","s","\"",",","s","c","o","p","e","=","\"","p","\"">>

ChallengeRealmOnly ==
    <<"B","E","A","R","E","R"," ","r","e","a","l","m","=","\"","h","t","t",
      "p","s",":","/","/","a","/","t","\"">>

ChallengeUpperKey ==
    <<"B","e","a","r","e","r"," ","R","e","a","l","m","=","\"","h","t","t",
      "p","s",":","/","/","a","/","t","\"",",","s","e","r","v","i","c","e",
      "=","\"","s","\"">>

ChallengeBadRealm ==
    <<"B","e","a","r","e","r"," ","r","e","a","l","m","=","\"",":","a","\"",
      ",","s","c","o","p","e","=","\"","p">>

ChallengeBasic ==
    <<"B","a","s","i","c"," ","r","e","a","l","m","=","\"","h","t","t","p",
      "s",":","/","/","a","/","t","\"">>

ChallengeBare ==
    <<"B","e","a","r","e","r">>

\* the Www-Authenticate headers a probe may be answered with
Challenges ==
    {ChallengeFull, ChallengeRealmOnly, ChallengeUpperKey, ChallengeBadRealm,
     ChallengeBasic, ChallengeBare, << >>}

Upper == <<"A","B","C","D","E","F","G","H","I","J","K","L","M",
           "N","O","P","Q","R","S","T","U","V","W","X","Y","Z">>

Lower == <<"a","b","c","d","e","f","g","h","i","j","k","l","m",
           "n","o","p","q","r","s","t","u","v","w","x","y","z">>

\* strings.ToLower
ToLower(s) ==
    [k \in 1..Len(s) |->
        IF \E n \in 1..26 : Upper[n] = s[k]
        THEN Lower[CHOOSE n \in 1..26 : Upper[n] = s[k]]
        ELSE s[k]]

\* strings.SplitN(s, " ", 2)
SplitN2(s) ==
    IF \E k \in 1..Len(s) : s[k] = " "
    THEN LET k == CHOOSE n \in 1..Len(s) :
                    s[n] = " " /\ \A m \in 1..(n - 1) : s[m] # " "
         IN <<SubSeq(s, 1, k - 1), SubSeq(s, k + 1, Len(s))>>
    ELSE <<s>>

\* s has the characters of w at position p
HasAt(s, p, w) ==
    /\ p + Len(w) - 1 <= Len(s)
    /\ \A k \in 1..Len(w) : s[p + k - 1] = w[k]

\* the alternatives of authHeaderRegex, in the order it tries them
regexKeys == <<claimRealm, claimService, claimScope>>

\* authHeaderRegex matches at p with alternative n: the key, then =" 
KeyMatchesAt(s, p, n) == HasAt(s, p, regexKeys[n] \o <<"=", "\"">>)

\* the end of the longest run of characters other than " that starts at p
RECURSIVE RunEnd(_, _)
RunEnd(s, p) ==
    IF p > Len(s) \/ s[p] = "\"" THEN p - 1 ELSE RunEnd(s, p + 1)

\* authHeaderRegex.FindAllStringSubmatch(s, -1) from position p on: the
\* leftmost matches, none overlapping another, as <<key, value>> pairs
RECURSIVE FindAllStringSubmatch(_, _)
FindAllStringSubmatch(s, p) ==
    IF p > Len(s) THEN << >>
    ELSE IF \E n \in 1..3 : KeyMatchesAt(s, p, n)
         THEN LET n == CHOOSE m \in 1..3 : KeyMatchesAt(s, p, m)
                  from == p + Len(regexKeys[n]) + 2
                  to == RunEnd(s, from)
              IN <<<<regexKeys[n], SubSeq(s, from, to)>>>>
                    \o FindAllStringSubmatch(s, to + 1)
         ELSE FindAllStringSubmatch(s, p + 1)

NoParams == [k \in {} |-> << >>]

\* the map filled from the matches, a later match replacing an earlier one
RECURSIVE ParamsOf(_)
ParamsOf(matches) ==
    IF matches = << >> THEN NoParams
    ELSE LET last == matches[Len(matches)]
         IN (ToLower(last[1]) :> last[2])
                @@ ParamsOf(SubSeq(matches, 1, Len(matches) - 1))

\* parseAuthHeader
parseAuthHeader(header) ==
    LET parts == SplitN2(header)
        scheme == ToLower(parts[1])
    IN IF Len(parts) < 2 THEN [scheme |-> scheme, params |-> NoParams]
       ELSE [scheme |-> scheme,
             params |-> ParamsOf(FindAllStringSubmatch(parts[2], 1))]

\* params[k] of a Go map: the zero value when the key is missing
MapGet(m, k) == IF k \in DOMAIN m THEN m[k] ELSE << >>

\* url.Parse rejects a URL whose first character is a colon (no scheme)
ParseFails(u) == u # << >> /\ u[1] = ":"

NoRequest ==
    [method |-> "", url |-> << >>, query |-> NoParams, body |-> "",
     Authorization |-> "", ContentType |-> "", Accept |-> ""]

\* http.NewRequest
NewRequest(method, url, body) ==
    IF ParseFails(url) THEN [err |-> "parse: missing protocol scheme", req |-> NoRequest]
    ELSE [err |-> "",
          req |-> [NoRequest EXCEPT !.method = method, !.url = url, !.body = body]]

\* req.SetBasicAuth leaving the password out
SetBasicAuth_noPassword(r, username, password) ==
    [r EXCEPT !.Authorization = "Basic " \o username \o ":"]

\* req.SetBasicAuth: the credentials, joined, under the Basic scheme
SetBasicAuth(r, username, password) ==
    [r EXCEPT !.Authorization = "Basic " \o username \o ":" \o password]

NoArgs == [tripper |-> FALSE, username |-> "", password |-> "", at |-> noAuth]

NoTransport == [tripper |-> FALSE, authType |-> noAuth, username |-> "", password |-> ""]

\* newTransport without the test of the password
newTransport_noPasswordTest(tripper, username, password, at) ==
    IF at \in {bearerAuth, basicAuth} /\ username = ""
    THEN [err |-> "username required", t |-> NoTransport]
    ELSE IF ~tripper
    THEN [err |-> "round trippper required", t |-> NoTransport]
    ELSE [err |-> "",
          t |-> [tripper |-> TRUE, authType |-> at, username |-> username,
                 password |-> password]]

\* newTransport; tripper is TRUE when a round tripper is supplied
newTransport(tripper, username, password, at) ==
    IF at \in {bearerAuth, basicAuth} /\ username = ""
    THEN [err |-> "username required", t |-> NoTransport]
    ELSE IF at \in {bearerAuth, basicAuth} /\ password = ""
    THEN [err |-> "password required", t |-> NoTransport]
    ELSE IF ~tripper
    THEN [err |-> "round trippper required", t |-> NoTransport]
    ELSE [err |-> "",
          t |-> [tripper |-> TRUE, authType |-> at, username |-> username,
                 password |-> password]]

\* a response body: json tells whether it is a JSON document, has whether
\* the document is an object with an access_token member
Body(json, has, token) == [json |-> json, has |-> has, access_token |-> token]

NoBody == Body(FALSE, FALSE, "")

\* json.Unmarshal into struct{AccessToken string `json:"access_token"`}
Unmarshal(body) ==
    IF ~body.json THEN [err |-> "json: invalid character", AccessToken |-> ""]
    ELSE [err |-> "", AccessToken |-> IF body.has THEN body.access_token ELSE ""]

NoResponse == [Code |-> 0, HeaderChallenge |-> << >>, Body |-> NoBody]

NoTripInfo == [Request |-> NoRequest, Response |-> NoResponse]

ErrNet == "dial tcp: connection refused"

\* what the tripper may return for a request: a failure, or a response
TripResults(r, responses) ==
    {[info |-> [Request |-> r, Response |-> NoResponse], err |-> ErrNet]}
    \cup {[info |-> [Request |-> r, Response |-> rs], err |-> ""] : rs \in responses}

ProbeResponses ==
    {[Code |-> c, HeaderChallenge |-> h, Body |-> NoBody] :
        c \in {StatusUnauthorized, StatusOK}, h \in Challenges}

TokenBodies ==
    {NoBody, Body(TRUE, FALSE, ""), Body(TRUE, TRUE, "tokA"),
     Body(TRUE, TRUE, "tokB")}

TokenResponses ==
    {[Code |-> c, HeaderChallenge |-> << >>, Body |-> b] :
        c \in {StatusOK, StatusUnauthorized}, b \in TokenBodies}

RealResponses ==
    {[Code |-> c, HeaderChallenge |-> << >>, Body |-> Body(TRUE, FALSE, "")] :
        c \in {StatusOK, StatusNotFound}}

\* roundTrip returns
Return(info, err) ==
    /\ out' = [tripInfo |-> info, err |-> err]
    /\ tpc' = "done"

\* the caller builds its transport: on an error no roundTrip follows
newTransport_call ==
    /\ tpc = "new"
    /\ LET r == newTransport(args.tripper, args.username, args.password, args.at)
       IN /\ t' = r.t
          /\ out' = [tripInfo |-> NoTripInfo, err |-> r.err]
          /\ tpc' = IF r.err = "" THEN "start" ELSE "failed"
    /\ UNCHANGED <<hvars, rvars, bvars, args, past, regReq, req, params, trips>>

\* roundTrip up to the first use of the tripper: the real request is built,
\* and in basic mode it gets its credentials
roundTrip_start ==
    /\ tpc = "start"
    /\ LET n == NewRequest(regReq.method, regReq.url, regReq.body)
           r == [n.req EXCEPT !.ContentType = regReq.contentType,
                              !.Accept = regReq.accept]
       IN IF n.err # ""
          THEN Return(NoTripInfo, n.err) /\ UNCHANGED req
          ELSE IF t.authType = bearerAuth
          THEN req' = r /\ tpc' = "probe" /\ UNCHANGED out
          ELSE IF t.authType = basicAuth
          THEN IF t.username = ""
               THEN Return(NoTripInfo, "username not provided") /\ UNCHANGED req
               ELSE /\ req' = SetBasicAuth(r, t.username, t.password)
                    /\ tpc' = "real"
                    /\ UNCHANGED out
          ELSE req' = r /\ tpc' = "real" /\ UNCHANGED out
    /\ UNCHANGED <<hvars, rvars, bvars, args, past, t, regReq, params, trips>>

\* the verdict on the probe without the test of the status code
challengeOf_anyStatus(res) ==
    IF res.err # "" THEN [err |-> res.err, params |-> NoParams]
    ELSE IF parseAuthHeader(res.info.Response.HeaderChallenge).scheme # schemeBearer
    THEN [err |-> "server does not support bearer authentication",
          params |-> NoParams]
    ELSE [err |-> NewRequest("GET",
                    MapGet(parseAuthHeader(res.info.Response.HeaderChallenge).params,
                           claimRealm), "").err,
          params |-> parseAuthHeader(res.info.Response.HeaderChallenge).params]

\* what roundTrip makes of the probe's result: the error it returns, or
\* the challenge parameters it hands to getToken
challengeOf(res) ==
    IF res.err # "" THEN [err |-> res.err, params |-> NoParams]
    ELSE IF res.info.Response.Code # StatusUnauthorized
    THEN [err |-> "failed to get challenge", params |-> NoParams]
    ELSE IF parseAuthHeader(res.info.Response.HeaderChallenge).scheme # schemeBearer
    THEN [err |-> "server does not support bearer authentication",
          params |-> NoParams]
    ELSE [err |-> NewRequest("GET",
                    MapGet(parseAuthHeader(res.info.Response.HeaderChallenge).params,
                           claimRealm), "").err,
          params |-> parseAuthHeader(res.info.Response.HeaderChallenge).params]

\* the probe of bearer mode and what roundTrip makes of its answer, up to
\* the request getToken builds
roundTrip_probe ==
    /\ tpc = "probe"
    /\ LET tokenReq == NewRequest(regReq.method, regReq.url, "")
       IN IF tokenReq.err # ""
          THEN Return(NoTripInfo, tokenReq.err) /\ UNCHANGED <<trips, params>>
          ELSE \E res \in TripResults(tokenReq.req, ProbeResponses) :
                /\ trips' = Append(trips, [role |-> "probe", req |-> tokenReq.req,
                                            res |-> res])
                /\ IF challengeOf(res).err # ""
                   THEN Return(res.info, challengeOf(res).err) /\ UNCHANGED params
                   ELSE /\ params' = challengeOf(res).params
                        /\ out' = [tripInfo |-> res.info, err |-> ""]
                        /\ tpc' = "token"
    /\ UNCHANGED <<hvars, rvars, bvars, args, past, t, regReq, req>>

\* the request getToken sends to the realm
tokenRequest(tr, ps) ==
    LET r0 == NewRequest("GET", MapGet(ps, claimRealm), "").req
        r1 == IF tr.username # "" THEN SetBasicAuth(r0, tr.username, tr.password)
              ELSE r0
    IN [r1 EXCEPT !.query =
            [k \in DOMAIN ps \cap {claimService, claimScope} |-> ps[k]]]

\* the token taken from the credentials of the token request instead of
\* the body of its response
tokenOf_fromRequest(res) ==
    IF res.err # "" THEN [err |-> res.err, token |-> ""]
    ELSE IF res.info.Response.Code # StatusOK
    THEN [err |-> "get access token failed, expected: 200, got: "
                    \o ToString(res.info.Response.Code),
          token |-> ""]
    ELSE IF Unmarshal(res.info.Response.Body).err # ""
    THEN [err |-> Unmarshal(res.info.Response.Body).err, token |-> ""]
    ELSE [err |-> "", token |-> res.info.Request.Authorization]

\* getToken wrapping the failure of its request in an error of its own
tokenOf_wrapsFailure(res) ==
    IF res.err # "" THEN [err |-> "get access token failed: " \o res.err, token |-> ""]
    ELSE IF res.info.Response.Code # StatusOK
    THEN [err |-> "get access token failed, expected: 200, got: "
                    \o ToString(res.info.Response.Code),
          token |-> ""]
    ELSE IF Unmarshal(res.info.Response.Body).err # ""
    THEN [err |-> Unmarshal(res.info.Response.Body).err, token |-> ""]
    ELSE [err |-> "", token |-> Unmarshal(res.info.Response.Body).AccessToken]

\* the token a token-endpoint response yields, or the error
tokenOf(res) ==
    IF res.err # "" THEN [err |-> res.err, token |-> ""]
    ELSE IF res.info.Response.Code # StatusOK
    THEN [err |-> "get access token failed, expected: 200, got: "
                    \o ToString(res.info.Response.Code),
          token |-> ""]
    ELSE IF Unmarshal(res.info.Response.Body).err # ""
    THEN [err |-> Unmarshal(res.info.Response.Body).err, token |-> ""]
    ELSE [err |-> "", token |-> Unmarshal(res.info.Response.Body).AccessToken]

\* getToken from its request on, and the header roundTrip sets from it
getToken ==
    /\ tpc = "token"
    /\ \E res \in TripResults(tokenRequest(t, params), TokenResponses) :
        /\ trips' = Append(trips, [role |-> "token",
                                    req |-> tokenRequest(t, params), res |-> res])
        /\ IF tokenOf(res).err # ""
           THEN Return(out.tripInfo, tokenOf(res).err) /\ UNCHANGED req
           ELSE /\ req' = [req EXCEPT !.Authorization = "Bearer " \o tokenOf(res).token]
                /\ tpc' = "real"
                /\ UNCHANGED out
    /\ UNCHANGED <<hvars, rvars, bvars, args, past, t, regReq, params>>

\* the real request is sent and its result returned
roundTrip_real ==
    /\ tpc = "real"
    /\ \E res \in TripResults(req, RealResponses) :
        /\ trips' = Append(trips, [role |-> "real", req |-> req, res |-> res])
        /\ Return(res.info, res.err)
    /\ UNCHANGED <<hvars, rvars, bvars, args, past, t, regReq, req, params>>

\* the registryRequests a caller hands to roundTrip
Requests ==
    [method : {"GET", "PUT"}, url : {UrlRegistry, UrlBad},
     body : {"", "blob"}, contentType : {"", "application/json"},
     accept : {""}]

\* what is kept of a finished roundTrip call: which requests it issued,
\* the Authorization header of its real request, and its error
Finished ==
    [roles |-> [k \in 1..Len(trips) |-> trips[k].role],
     auth |-> IF trips # << >> /\ trips[Len(trips)].role = "real"
              THEN trips[Len(trips)].req.Authorization ELSE "",
     err |-> out.err]

\* the next roundTrip call where a bearer transport that got a token in
\* the call before sends its real request with that token at once
roundTrip_next_keepsToken ==
    /\ tpc = "done"
    /\ Len(past) + 1 < MaxCalls
    /\ past' = Append(past, Finished)
    /\ regReq' \in Requests
    /\ IF t.authType = bearerAuth /\ out.err = ""
       THEN tpc' = "real" /\ UNCHANGED req
       ELSE tpc' = "start" /\ req' = NoRequest
    /\ params' = NoParams
    /\ trips' = << >>
    /\ out' = [tripInfo |-> NoTripInfo, err |-> ""]
    /\ UNCHANGED <<hvars, rvars, bvars, args, t>>

\* the caller makes its next roundTrip call with the same transport: the
\* call starts with fresh locals
roundTrip_next ==
    /\ tpc = "done"
    /\ Len(past) + 1 < MaxCalls
    /\ past' = Append(past, Finished)
    /\ regReq' \in Requests
    /\ tpc' = "start"
    /\ req' = NoRequest
    /\ params' = NoParams
    /\ trips' = << >>
    /\ out' = [tripInfo |-> NoTripInfo, err |-> ""]
    /\ UNCHANGED <<hvars, rvars, bvars, args, t>>

(* =========================== hashing reader ============================ *)
(* Bytes are numbers; the state of a SHA-256 hash is the sequence of bytes *)
(* written to it, and its sum is a value that differs for different        *)
(* sequences.                                                              *)

Bytes == {0, 1}

EOF == "EOF"

ErrRead == "read: connection reset"

\* sha256.New()
NewHash == << >>

\* hash.Hash.Write: it never fails
Write(h, p) == h \o p

\* hash.Hash.Sum(nil)
Sum256(h) == <<"sha256", h>>

\* NewReader
NewReader == [sha256Hash |-> NewHash, n |-> 0]

NoRead == [n |-> 0, err |-> "", baseErr |-> ""]

\* what the underlying reader may do with a buffer of length len: deliver
\* up to len of the next bytes, with no error, with EOF once nothing is
\* left behind them, or with a failure
BaseReads(len) ==
    {[n |-> n, data |-> SubSeq(source, 1, n), err |-> e] :
        n \in 0..(IF len < Len(source) THEN len ELSE Len(source)),
        e \in {"", ErrRead}}
    \cup {[n |-> Len(source), data |-> source, err |-> EOF] :
            n \in {k \in {Len(source)} : k <= len}}

\* the Read of io.TeeReader(r, hash): what was read is written to the hash
teeReader_Read(h, res) ==
    [hash |-> IF res.n > 0 THEN Write(h, res.data) ELSE h,
     n |-> res.n, err |-> res.err]

\* ReaderWithContext.Read where the bytes of a failed Read are not counted
ReaderWithContext_Read_dropsOnError(r, res) ==
    LET b == teeReader_Read(r.sha256Hash, res)
    IN [r |-> [sha256Hash |-> b.hash,
               n |-> IF b.err = "" THEN r.n + b.n ELSE r.n],
        n |-> b.n, err |-> b.err]

\* ReaderWithContext.Read: the reader afterwards and the (n, err) returned
ReaderWithContext_Read(r, res) ==
    LET b == teeReader_Read(r.sha256Hash, res)
    IN [r |-> [sha256Hash |-> b.hash, n |-> r.n + b.n],
        n |-> b.n, err |-> b.err]

\* ReaderWithContext.N
N(r) == r.n

\* ReaderWithContext.SHA256Hash
SHA256Hash(r) == r.sha256Hash

\* one Read call with a buffer of any length
Read ==
    /\ rpc = "open"
    /\ reads < MaxReads
    /\ \E len \in 0..MaxChunk :
        \E res \in BaseReads(len) :
            LET rr == ReaderWithContext_Read(reader, res)
            IN /\ reader' = rr.r
               /\ got' = got \o SubSeq(res.data, 1, rr.n)
               /\ source' = SubSeq(source, res.n + 1, Len(source))
               /\ lastRead' = [n |-> rr.n, err |-> rr.err, baseErr |-> res.err]
    /\ reads' = reads + 1
    /\ UNCHANGED <<hvars, bvars, tvars, rpc>>

(* ========================= HTTP round tripper ========================== *)
(* The body of the response is the source of a hashing reader, read to its *)
(* end as ioutil.ReadAll does.                                             *)

ErrNoLocation == "http: no Location header in response"

ErrLocation == "parse: invalid URL escape"

NoResp == [obtained |-> FALSE, StatusCode |-> 0, Location |-> "none"]

\* the responses r.Base.RoundTrip may return: a status, and no Location
\* header, one that parses or one that does not
BaseResponses ==
    [obtained : {TRUE}, StatusCode : {StatusOK, StatusUnauthorized},
     Location : {"none", "good", "bad"}]

\* resp.Location
Location(rs) ==
    IF rs.Location = "none" THEN [url |-> "", err |-> ErrNoLocation]
    ELSE IF rs.Location = "bad" THEN [url |-> "", err |-> ErrLocation]
    ELSE [url |-> "https://r/next", err |-> ""]

NoInfoResponse ==
    [Code |-> 0, HeaderLocation |-> "", Size |-> 0, SHA256Sum |-> Sum256(NewHash),
     Body |-> << >>]

\* RoundTrip returns after its deferred resp.Body.Close() has run
ReturnClosing(info, err) ==
    /\ hout' = [info |-> info, err |-> err]
    /\ closes' = closes + 1
    /\ hpc' = "done"

\* RoundTrip up to the return of r.Base.RoundTrip: on its error RoundTrip
\* returns, otherwise a hashing reader is put over the body
RoundTrip_base ==
    /\ hpc = "base"
    /\ \/ /\ hout' = [hout EXCEPT !.err = ErrNet]
          /\ hpc' = "done"
          /\ UNCHANGED <<resp, rpc, reader>>
       \/ /\ resp' \in BaseResponses
          /\ rpc' = "open"
          /\ reader' = NewReader
          /\ hpc' = "read"
          /\ UNCHANGED hout
    /\ UNCHANGED <<bvars, tvars, closes, source, got, lastRead, reads>>

\* one Read of ioutil.ReadAll on the hashing reader: it goes on until a
\* Read returns an error, and EOF ends it without one
RoundTrip_read ==
    /\ hpc = "read"
    /\ reads < MaxReads
    /\ \E len \in 1..MaxChunk :
        \E res \in BaseReads(len) :
            LET rr == ReaderWithContext_Read(reader, res)
                bodyBytes == got \o SubSeq(res.data, 1, rr.n)
            IN /\ reader' = rr.r
               /\ got' = bodyBytes
               /\ source' = SubSeq(source, res.n + 1, Len(source))
               /\ lastRead' = [n |-> rr.n, err |-> rr.err, baseErr |-> res.err]
               /\ IF rr.err = ""
                  THEN UNCHANGED <<hpc, hout, closes>>
                  ELSE IF rr.err = EOF
                  THEN /\ hout' = [hout EXCEPT !.info.Response =
                                [Code |-> resp.StatusCode, HeaderLocation |-> "",
                                 Size |-> N(rr.r),
                                 SHA256Sum |-> Sum256(SHA256Hash(rr.r)),
                                 Body |-> bodyBytes]]
                       /\ hpc' = "location"
                       /\ UNCHANGED closes
                  ELSE ReturnClosing(hout.info, rr.err)
    /\ reads' = reads + 1
    /\ UNCHANGED <<bvars, tvars, rpc, resp>>

\* the Location header where a header that does not parse makes RoundTrip
\* return without closing the body
RoundTrip_location_leaks ==
    /\ hpc = "location"
    /\ IF Location(resp).err # ""
       THEN IF Location(resp).err # ErrNoLocation
            THEN /\ hout' = [hout EXCEPT !.err = Location(resp).err]
                 /\ hpc' = "done"
                 /\ UNCHANGED closes
            ELSE ReturnClosing(hout.info, "")
       ELSE ReturnClosing([hout.info EXCEPT !.Response.HeaderLocation =
                                Location(resp).url], "")
    /\ UNCHANGED <<bvars, tvars, rvars, resp>>

\* the Location header is looked at and RoundTrip returns
RoundTrip_location ==
    /\ hpc = "location"
    /\ IF Location(resp).err # ""
       THEN IF Location(resp).err # ErrNoLocation
            THEN ReturnClosing(hout.info, Location(resp).err)
            ELSE ReturnClosing(hout.info, "")
       ELSE ReturnClosing([hout.info EXCEPT !.Response.HeaderLocation =
                                Location(resp).url], "")
    /\ UNCHANGED <<bvars, tvars, rvars, resp>>

(* --------------------------- specification ----------------------------- *)

\* no transport is in use
TransportIdle ==
    /\ args = NoArgs
    /\ t = NoTransport
    /\ regReq = [method |-> "", url |-> << >>, body |-> "", contentType |-> "",
                 accept |-> ""]
    /\ tpc = "idle"
    /\ req = NoRequest
    /\ params = NoParams
    /\ trips = << >>
    /\ out = [tripInfo |-> NoTripInfo, err |-> ""]
    /\ past = << >>

\* no HTTP round trip is under way
HttpIdle ==
    /\ hpc = "idle"
    /\ resp = NoResp
    /\ closes = 0
    /\ hout = [info |-> [Request |-> NoRequest, Response |-> NoInfoResponse],
               err |-> ""]

\* no hashing reader is in use
ReaderIdle ==
    /\ rpc = "idle"
    /\ source = << >>
    /\ reader = NewReader
    /\ got = << >>
    /\ lastRead = NoRead
    /\ reads = 0

\* no command is running
BuilderIdle ==
    /\ variant = "proxy"
    /\ op = ""
    /\ hasMediaType = FALSE
    /\ strict = FALSE
    /\ pc = "idle"
    /\ i = 0
    /\ tag = ""
    /\ frame = NoFrame
    /\ ret = NoRet
    /\ subjectDesc = EmptyDescriptor
    /\ Manifests = << >>
    /\ results = << >>
    /\ runErr = ""
    /\ now = 1
    /\ store = {}
    /\ faults = 0
    /\ calls = << >>

Init ==
    /\ variant \in Variants
    /\ op \in {"GenerateOCIArtifacts", "GenerateOCIIndex"}
    /\ variant = "part_000" => op = "GenerateOCIIndex"
    /\ hasMediaType \in BOOLEAN
    /\ op = "GenerateOCIArtifacts" => hasMediaType = FALSE
    /\ strict \in BOOLEAN
    /\ pc = "start"
    /\ i = 0
    /\ tag = ""
    /\ frame = NoFrame
    /\ ret = NoRet
    /\ subjectDesc = EmptyDescriptor
    /\ Manifests = << >>
    /\ results = << >>
    /\ runErr = ""
    /\ now = 1
    /\ store \in SUBSET LeftOver
    /\ faults = 0
    /\ calls = << >>
    /\ TransportIdle
    /\ ReaderIdle
    /\ HttpIdle

Next ==
    \/ GenerateOCIArtifacts_start
    \/ GenerateOCIArtifacts_subject
    \/ GenerateOCIArtifacts_entry
    \/ GenerateOCIArtifacts_classify
    \/ GenerateOCIIndex_start
    \/ GenerateOCIIndex_image
    \/ GenerateOCIIndex_collect
    \/ GenerateOCIIndex_upload
    \/ pushOCIImage_config
    \/ pushOCIImage_layer
    \/ pushOCIImage_manifest
    \/ pushOCIArtifact_config
    \/ pushOCIArtifact_layer
    \/ pushOCIArtifact_manifest

Spec == Init /\ [][Next]_vars

\* a transport is to be built from the caller's arguments; when
\* newTransport succeeds one roundTrip call is made with it
InitT ==
    /\ BuilderIdle
    /\ ReaderIdle
    /\ HttpIdle
    /\ args \in [tripper : BOOLEAN, username : {"", "u"}, password : {"", "p"},
                  at : {noAuth, basicAuth, bearerAuth}]
    /\ t = NoTransport
    /\ out = [tripInfo |-> NoTripInfo, err |-> ""]
    /\ tpc = "new"
    /\ regReq \in Requests
    /\ req = NoRequest
    /\ params = NoParams
    /\ trips = << >>
    /\ past = << >>

NextT ==
    \/ newTransport_call
    \/ roundTrip_next
    \/ roundTrip_start
    \/ roundTrip_probe
    \/ getToken
    \/ roundTrip_real

SpecT == InitT /\ [][NextT]_vars

\* all byte sequences of length up to n
RECURSIVE SeqsUpTo(_)
SeqsUpTo(n) ==
    IF n = 0 THEN {<< >>}
    ELSE SeqsUpTo(n - 1)
            \cup {Append(s, b) : s \in {x \in SeqsUpTo(n - 1) : Len(x) = n - 1},
                                 b \in Bytes}

\* a hashing reader is made over a source holding any bytes
InitR ==
    /\ BuilderIdle
    /\ TransportIdle
    /\ rpc = "open"
    /\ source \in SeqsUpTo(MaxData)
    /\ reader = NewReader
    /\ got = << >>
    /\ lastRead = NoRead
    /\ reads = 0
    /\ HttpIdle

NextR == Read

SpecR == InitR /\ [][NextR]_vars

\* RoundTrip is called with a request, against a server whose response
\* body holds any bytes; info starts out with the request's method, URL
\* and Authorization header
InitH ==
    /\ BuilderIdle
    /\ TransportIdle
    /\ rpc = "idle"
    /\ source \in SeqsUpTo(MaxData)
    /\ reader = NewReader
    /\ got = << >>
    /\ lastRead = NoRead
    /\ reads = 0
    /\ hpc = "base"
    /\ resp = NoResp
    /\ closes = 0
    /\ \E method \in {"GET", "PUT"}, auth \in {"", "Bearer tokA"} :
        hout = [info |-> [Request |-> [NoRequest EXCEPT !.method = method,
                                                          !.url = UrlRegistry,
                                                          !.Authorization = auth],
                          Response |-> NoInfoResponse],
                err |-> ""]

NextH ==
    \/ RoundTrip_base
    \/ RoundTrip_read
    \/ RoundTrip_location

SpecH == InitH /\ [][NextH]_vars

\* the program is running a command, or one HTTP round trip
InitU == Init \/ InitH

NextU == Next \/ NextH

SpecU == InitU /\ [][NextU]_vars

\* the values artifactConstructOptions can take, layercount bounded
AnyOptions ==
    [includesArtifactType : BOOLEAN, configIsScratch : BOOLEAN,
     layersAreScratch : BOOLEAN, layercount : 0..MaxLayers,
     hasSubject : BOOLEAN, subjectInRegistry : BOOLEAN,
     errorExpected : BOOLEAN]

\* pushOCIArtifact is called once, with any options and with the subject
\* the runner's loop would hand it for them
InitA ==
    /\ variant = "proxy"
    /\ op = "pushOCIArtifact"
    /\ hasMediaType = FALSE
    /\ strict \in BOOLEAN
    /\ pc = "art_config"
    /\ i = 0
    /\ tag = ""
    /\ \E o \in AnyOptions :
        frame = ArtifactFrame(0, tagPrefix \o "-oci-0", o,
                    entrySubject(o, 0,
                        Descriptor(MediaTypeImageManifest, FromBytes("subject"), 7)))
    /\ ret = NoRet
    /\ subjectDesc = Descriptor(MediaTypeImageManifest, FromBytes("subject"), 7)
    /\ Manifests = << >>
    /\ results = << >>
    /\ runErr = ""
    /\ now = 1
    /\ store \in SUBSET {ScratchDescriptor.Digest}
    /\ faults = 0
    /\ calls = << >>
    /\ TransportIdle
    /\ ReaderIdle
    /\ HttpIdle

NextA ==
    \/ pushOCIArtifact_config
    \/ pushOCIArtifact_layer
    \/ pushOCIArtifact_manifest

SpecA == InitA /\ [][NextA]_vars

(* =============================== claims ================================ *)

\* the config and layer digests a manifest references
Refs(m) == {m.Config.Digest} \cup {m.Layers[k].Digest : k \in 1..Len(m.Layers)}

\* call k is an upload that returned success
Succeeded(k) == calls[k].err = ""

\* C1: in pushOCIArtifact, when the manifest upload is issued every config
\* and layer descriptor the manifest references has already been uploaded
\* by a successful upload call earlier in the run.
C1_ArtifactManifestRefsUploaded ==
    \A k \in 1..Len(calls) :
        (calls[k].fn = "pushOCIArtifact" /\ calls[k].kind = "manifest")
        => \A d \in Refs(calls[k].doc[1]) :
              \E m \in 1..(k - 1) : calls[m].desc.Digest = d /\ Succeeded(m)

\* the uploads of the pushOCIImage call with build number b, in order
ImageCalls(b) ==
    SelectSeq(calls, LAMBDA c : c.fn = "pushOCIImage" /\ c.build = b)

\* the uploads of a complete simple image: config, layers 0..N-1, manifest
ImageOrder ==
    <<[kind |-> "config", idx |-> 0]>>
        \o [n \in 1..SimpleImageLayers |-> [kind |-> "layer", idx |-> n - 1]]
        \o <<[kind |-> "manifest", idx |-> 0]>>

ImageBuilds == {SubjectBuild} \cup 0..(IndexImages("proxy") - 1)

\* C2: pushOCIImage issues its uploads in the order config, layer 0..N-1,
\* manifest, each only after all earlier ones returned success; after a
\* failed upload it issues no other and returns that error.
C2_ImageOrder ==
    \A b \in ImageBuilds :
        LET cs == ImageCalls(b)
        IN /\ Len(cs) <= Len(ImageOrder)
           /\ \A k \in 1..Len(cs) :
                /\ cs[k].kind = ImageOrder[k].kind
                /\ cs[k].idx = ImageOrder[k].idx
                /\ k < Len(cs) => cs[k].err = ""
           /\ (pc = "img_ret" /\ frame.build = b /\ cs # << >>)
                => /\ ret.err = cs[Len(cs)].err
                   /\ ret.err = "" => cs[Len(cs)].kind = "manifest"

\* C2 witness: one simple image was pushed completely, and the push of a
\* later one has just returned the error of a failed layer upload.
C2_Witness ==
    /\ pc = "img_ret"
    /\ ret.err # ""
    /\ calls # << >>
    /\ calls[Len(calls)].kind = "layer"
    /\ calls[Len(calls)].err = ret.err
    /\ \E k \in 1..Len(calls) :
        calls[k].fn = "pushOCIImage" /\ calls[k].kind = "manifest" /\ Succeeded(k)

\* C3: in every upload call the digest of the descriptor is the hash of
\* the bytes passed to that call and its size is their length.
C3_DescriptorOfBytes ==
    \A k \in 1..Len(calls) :
        /\ calls[k].desc.Digest = FromBytes(calls[k].data)
        /\ calls[k].desc.Size = Len(calls[k].data)

\* C4: an upload the push capability answers with already-exists returns
\* success and transfers nothing, and an upload of a descriptor and bytes
\* that an earlier upload pushed successfully succeeds again (unless the
\* request itself fails).
C4_UploadIdempotent ==
    /\ \A k \in 1..Len(calls) :
        calls[k].outcome = "exists"
        => calls[k].err = "" /\ calls[k].sent = "" /\ ~calls[k].writer
    /\ \A k1, k2 \in 1..Len(calls) :
        (/\ k1 < k2
         /\ calls[k1].desc = calls[k2].desc
         /\ calls[k1].data = calls[k2].data
         /\ Succeeded(k1)
         /\ calls[k2].outcome # "pusherr")
        => Succeeded(k2)

\* C4 witness: the same descriptor and bytes were uploaded twice, the first
\* upload transferred them and the second found them present.
C4_Witness ==
    \E k1, k2 \in 1..Len(calls) :
        /\ k1 < k2
        /\ calls[k1].desc = calls[k2].desc
        /\ calls[k1].data = calls[k2].data
        /\ calls[k1].outcome = "ok"
        /\ calls[k2].outcome = "exists"
        /\ Succeeded(k2)

\* the probe was answered 401 with a Bearer challenge naming a realm
ProbeChallenged ==
    /\ Len(trips) >= 1
    /\ trips[1].res.err = ""
    /\ trips[1].res.info.Response.Code = StatusUnauthorized
    /\ parseAuthHeader(trips[1].res.info.Response.HeaderChallenge).scheme
            = schemeBearer
    /\ claimRealm \in
            DOMAIN parseAuthHeader(trips[1].res.info.Response.HeaderChallenge).params

\* the token endpoint answered 200 with a body holding an access_token
TokenGranted ==
    /\ Len(trips) >= 2
    /\ trips[2].res.err = ""
    /\ trips[2].res.info.Response.Code = StatusOK
    /\ trips[2].res.info.Response.Body.json
    /\ trips[2].res.info.Response.Body.has

\* C5: in bearer mode, when the probe is answered 401 with a well-formed
\* Bearer challenge and the token endpoint answers 200 with an
\* access_token, roundTrip issues exactly the probe (method and URL of the
\* request, no body, no Authorization), the token GET and the real request,
\* in this order; the real request carries "Bearer " and that access_token,
\* and its result is what roundTrip returns.
C5_BearerRoundTrip ==
    (t.authType = bearerAuth /\ ProbeChallenged /\ TokenGranted)
    => /\ Len(trips) <= 3
       /\ trips[1].role = "probe"
       /\ trips[1].req = [NoRequest EXCEPT !.method = regReq.method,
                                           !.url = regReq.url]
       /\ trips[2].role = "token"
       /\ trips[2].req.method = "GET"
       /\ tpc \in {"real", "done"}
       /\ tpc = "done"
            => /\ Len(trips) = 3
               /\ trips[3].role = "real"
               /\ trips[3].req.method = regReq.method
               /\ trips[3].req.url = regReq.url
               /\ trips[3].req.body = regReq.body
               /\ trips[3].req.Authorization
                    = "Bearer " \o trips[2].res.info.Response.Body.access_token
               /\ out = [tripInfo |-> trips[3].res.info, err |-> trips[3].res.err]

\* C5 witness: a bearer round trip went through probe, token and real
\* request and returned the 200 of the real request.
C5_Witness ==
    /\ t.authType = bearerAuth
    /\ ProbeChallenged
    /\ TokenGranted
    /\ tpc = "done"
    /\ Len(trips) = 3
    /\ out.err = ""
    /\ out.tripInfo.Response.Code = StatusOK
    /\ trips[3].req.Authorization = "Bearer tokB"

\* a request of the given role was handed to the tripper
Issued(role) == \E k \in 1..Len(trips) : trips[k].role = role

\* the probe was answered, and not with 401
ProbeNot401 ==
    /\ Len(trips) >= 1
    /\ trips[1].res.err = ""
    /\ trips[1].res.info.Response.Code # StatusUnauthorized

\* the probe was answered with a challenge of another scheme than bearer
ProbeNotBearer ==
    /\ Len(trips) >= 1
    /\ trips[1].res.err = ""
    /\ parseAuthHeader(trips[1].res.info.Response.HeaderChallenge).scheme
            # schemeBearer

\* the token endpoint answered, and not with 200
TokenNot200 ==
    /\ Len(trips) >= 2
    /\ trips[2].res.err = ""
    /\ trips[2].res.info.Response.Code # StatusOK

\* C6: in bearer mode the real request is issued only after a probe
\* answered 401 with the bearer scheme and a token response of status 200;
\* when the probe is not answered 401 or not with the bearer scheme,
\* roundTrip returns an error having issued neither token nor real request,
\* and when the token response is not 200 it returns an error without
\* issuing the real request.
C6_BearerGuards ==
    t.authType = bearerAuth
    => /\ Issued("real")
            => /\ ~ProbeNot401
               /\ ~ProbeNotBearer
               /\ ~TokenNot200
               /\ trips[1].role = "probe"
               /\ trips[2].role = "token"
               /\ trips[2].res.err = ""
       /\ (ProbeNot401 \/ ProbeNotBearer)
            => /\ tpc = "done"
               /\ out.err # ""
               /\ Len(trips) = 1
       /\ TokenNot200
            => /\ tpc = "done"
               /\ out.err # ""
               /\ Len(trips) = 2

\* C6 witness: a probe answered 200 with a Bearer challenge ended the
\* round trip with an error after that single request.
C6_Witness ==
    /\ t.authType = bearerAuth
    /\ ProbeNot401
    /\ ~ProbeNotBearer
    /\ tpc = "done"
    /\ out.err = "failed to get challenge"
    /\ Len(trips) = 1

\* C7: a token response of status 200 whose body is not JSON, or is JSON
\* without an access_token, makes the round trip fail, and no real request
\* is sent.
C7_TokenBodyChecked ==
    (/\ t.authType = bearerAuth
     /\ Len(trips) >= 2
     /\ trips[2].res.err = ""
     /\ trips[2].res.info.Response.Code = StatusOK
     /\ \/ ~trips[2].res.info.Response.Body.json
        \/ ~trips[2].res.info.Response.Body.has)
    => /\ ~Issued("real")
       /\ tpc = "done"
       /\ out.err # ""

\* the subject image of GenerateOCIArtifacts was pushed
SubjectPushed ==
    /\ op = "GenerateOCIArtifacts"
    /\ pc \in {"loop", "art_config", "art_layer", "art_manifest", "art_ret", "done"}
    /\ subjectDesc # EmptyDescriptor

\* C8: once the subject push succeeded, the runner attempts the 8 table
\* entries once each in table order whatever their outcomes: the cases
\* logged are entries 0, 1, 2, ... with none missing or repeated, each of
\* them was built, every upload belongs to the subject or to an entry not
\* after the current one, the uploads of an entry never precede those of
\* an earlier entry, and the command ends only after the eighth entry.
C8_MatrixRunsThrough ==
    SubjectPushed
    => /\ \A n \in 1..Len(results) : results[n].entry = n - 1
       /\ Len(results) = i
       /\ pc # "done" => i < Len(opts)
       /\ pc = "done" => Len(results) = Len(opts) /\ Len(opts) = 8
       /\ \A k \in 1..Len(calls) :
            /\ calls[k].build <= i
            /\ \A k2 \in k..Len(calls) : calls[k].build <= calls[k2].build
       /\ \A n \in 1..Len(results) :
            \/ \E k \in 1..Len(calls) :
                    calls[k].fn = "pushOCIArtifact" /\ calls[k].build = n - 1
            \/ results[n].err = ErrPusher

\* C8 witness: the command returned after the eighth entry although two
\* earlier entries failed.
C8_Witness ==
    /\ SubjectPushed
    /\ pc = "done"
    /\ Len(results) = 8
    /\ Cardinality({n \in 1..Len(results) : results[n].err # ""}) >= 2
    /\ \E n \in 1..Len(results) : results[n].err # "" /\ ~results[n].errorExpected

\* the runner reported the case as passed: its last line is Success and
\* no line is logged as an error
ReportedSuccess(r) ==
    /\ r.log[Len(r.log)] = [level |-> "info", msg |-> "Success"]
    /\ \A k \in 1..Len(r.log) : r.log[k].level # "error"

\* C9: a case whose build succeeds although its entry has errorExpected is
\* not reported as Success.
C9_UnexpectedSuccessFails ==
    \A n \in 1..Len(results) :
        (results[n].err = "" /\ results[n].errorExpected)
        => ~ReportedSuccess(results[n])

\* C10: a case whose build returns an error is reported as passed exactly
\* when its entry has errorExpected, an unexpected error being logged as
\* an error; a case whose build succeeds with errorExpected false is
\* reported as passed.
C10_Classification ==
    \A n \in 1..Len(results) :
        /\ results[n].errorExpected = opts[n].errorExpected
        /\ results[n].err # ""
            => /\ ReportedSuccess(results[n]) <=> results[n].errorExpected
               /\ ~results[n].errorExpected
                    => \E k \in 1..Len(results[n].log) :
                          results[n].log[k].level = "error"
        /\ (results[n].err = "" /\ ~results[n].errorExpected)
            => ReportedSuccess(results[n])

\* C10 witness: an expected error, an unexpected error and an expected
\* success have all been classified in one run.
C10_Witness ==
    /\ \E n \in 1..Len(results) : results[n].err # "" /\ results[n].errorExpected
    /\ \E n \in 1..Len(results) : results[n].err # "" /\ ~results[n].errorExpected
    /\ \E n \in 1..Len(results) : results[n].err = "" /\ ~results[n].errorExpected


\* the manifest upload of table entry e returned an error
ManifestRejected(e) ==
    \E k \in 1..Len(calls) :
        /\ calls[k].fn = "pushOCIArtifact"
        /\ calls[k].build = e
        /\ calls[k].kind = "manifest"
        /\ calls[k].err # ""

\* the runner reported the case as an expected error
ReportedExpectedError(r) ==
    /\ ReportedSuccess(r)
    /\ r.log[1] = [level |-> "info", msg |-> "Received Expected Error: " \o r.err]

\* C11: every table entry without artifact type whose config and single
\* layer are scratch, and every entry with no layer, is reported as an
\* expected error when the upload of its manifest is rejected.
C11_RejectedEdgeCasesExpected ==
    \A n \in 1..Len(results) :
        (/\ \/ /\ ~opts[n].includesArtifactType
               /\ opts[n].configIsScratch
               /\ opts[n].layersAreScratch
               /\ opts[n].layercount = 1
            \/ opts[n].layercount = 0
         /\ ManifestRejected(n - 1))
        => ReportedExpectedError(results[n])


\* C12: a run of GenerateOCIArtifacts against a registry that enforces its
\* rules and never fails otherwise classifies no case as an unexpected
\* error and none as an unexpected success.
C12_CleanRunNoSurprise ==
    (op = "GenerateOCIArtifacts" /\ strict /\ faults = 0)
    => \A n \in 1..Len(results) :
          /\ ~(results[n].err # "" /\ ~results[n].errorExpected)
          /\ ~(results[n].err = "" /\ results[n].errorExpected)


\* a failed request is the last one issued and its error is what
\* roundTrip returns; no role is issued twice; bearer mode issues at most
\* three requests
FailuresAbort ==
    /\ \A k \in 1..Len(trips) :
        trips[k].res.err # ""
        => /\ k = Len(trips)
           /\ tpc = "done"
           /\ out.err = trips[k].res.err
    /\ \A k1, k2 \in 1..Len(trips) : trips[k1].role = trips[k2].role => k1 = k2
    /\ t.authType = bearerAuth => Len(trips) <= 3

\* C13 as stated: failures of the underlying requests abort roundTrip and
\* are returned unchanged, nothing is issued after a failure or repeated,
\* and a call issues at most 3 requests in bearer mode and exactly 1 in
\* basic or no-auth mode.
C13_ExactlyOneRequest ==
    /\ FailuresAbort
    /\ (t.authType \in {basicAuth, noAuth} /\ tpc = "done") => Len(trips) = 1

\* C13 amended: as stated, except that in basic or no-auth mode a call
\* issues exactly 1 request when http.NewRequest accepts the method and
\* URL, and none when it rejects them.
C13_AtMostOneRequest ==
    /\ FailuresAbort
    /\ (t.authType \in {basicAuth, noAuth} /\ tpc = "done")
        => Len(trips) =
             IF NewRequest(regReq.method, regReq.url, regReq.body).err = ""
             THEN 1 ELSE 0

\* C13 witness: in bearer mode the token request failed after the probe,
\* and roundTrip returned that failure.
C13_Witness ==
    /\ t.authType = bearerAuth
    /\ tpc = "done"
    /\ Len(trips) = 2
    /\ trips[2].role = "token"
    /\ trips[2].res.err = ErrNet
    /\ out.err = ErrNet


\* the key="value" pairs of s from position p on whose key is realm,
\* service or scope written in any letter case, as <<key, value>> pairs
RECURSIVE PairsAnyCase(_, _)
PairsAnyCase(s, p) ==
    IF p > Len(s) THEN << >>
    ELSE IF \E n \in 1..3 : KeyMatchesAt(ToLower(s), p, n)
         THEN LET n == CHOOSE m \in 1..3 : KeyMatchesAt(ToLower(s), p, m)
                  from == p + Len(regexKeys[n]) + 2
                  to == RunEnd(s, from)
              IN <<<<regexKeys[n], SubSeq(s, from, to)>>>>
                    \o PairsAnyCase(s, to + 1)
         ELSE PairsAnyCase(s, p + 1)

\* C14: for every challenge header roundTrip parses, parseAuthHeader
\* yields the lower-cased scheme and a map with one entry per key="value"
\* pair whose key is realm, service or scope in any letter case, keyed by
\* the lower-cased key and holding the text between the quotes.
C14_KeysAnyCase ==
    \A k \in 1..Len(trips) :
        (/\ trips[k].role = "probe"
         /\ trips[k].res.err = ""
         /\ trips[k].res.info.Response.Code = StatusUnauthorized)
        => LET h == trips[k].res.info.Response.HeaderChallenge
               parts == SplitN2(h)
           IN /\ parseAuthHeader(h).scheme = ToLower(parts[1])
              /\ parseAuthHeader(h).params =
                    IF Len(parts) < 2 THEN NoParams
                    ELSE ParamsOf(PairsAnyCase(parts[2], 1))


\* newTransport returned an error: no roundTrip is ever started
ConstructionFailed == tpc = "failed"

\* C15: newTransport fails exactly when the mode is basic or bearer and the
\* username or the password is empty, or when no tripper is supplied; in
\* every other case the transport holds exactly the given mode,
\* credentials and tripper.
C15_Construction ==
    /\ tpc \notin {"idle", "new"}
        => (ConstructionFailed
            <=> \/ /\ args.at \in {basicAuth, bearerAuth}
                   /\ (args.username = "" \/ args.password = "")
                \/ ~args.tripper)
    /\ ConstructionFailed => out.err # ""
    /\ tpc \notin {"idle", "new", "failed"}
        => /\ t.authType = args.at
           /\ t.username = args.username
           /\ t.password = args.password
           /\ t.tripper = args.tripper

\* C15 witness: bearer mode with a username and a tripper but no password
\* is refused.
C15_Witness ==
    /\ ConstructionFailed
    /\ args.at = bearerAuth
    /\ args.username # ""
    /\ args.password = ""
    /\ args.tripper
    /\ out.err = "password required"


\* call k is the successful manifest upload of simple image b
ImageManifestAt(k, b) ==
    /\ calls[k].fn = "pushOCIImage"
    /\ calls[k].build = b
    /\ calls[k].kind = "manifest"
    /\ Succeeded(k)

\* C16: GenerateOCIIndex issues the index upload only after all N image
\* builds succeeded, as its last upload, and the index lists exactly the N
\* manifest descriptors of those builds in build order; once an image
\* build has failed, its error is what GenerateOCIIndex returns, no other
\* build is started and no index is ever uploaded.
C16_IndexAfterAllBuilds ==
    op = "GenerateOCIIndex"
    => /\ \A k \in 1..Len(calls) :
            calls[k].kind = "index"
            => /\ k = Len(calls)
               /\ pc = "done"
               /\ Len(calls[k].doc[1].Manifests) = IndexImages(variant)
               /\ \A b \in 0..(IndexImages(variant) - 1) :
                    \E m \in 1..(k - 1) :
                        /\ ImageManifestAt(m, b)
                        /\ calls[k].doc[1].Manifests[b + 1] = calls[m].desc
                        /\ \A m2 \in 1..(m - 1) : calls[m2].build <= b
       /\ (ret.err # "" /\ pc # "img_ret")
            => /\ pc = "done"
               /\ runErr = ret.err
               /\ frame.build = i
               /\ \A k \in 1..Len(calls) :
                    calls[k].kind # "index" /\ calls[k].build <= i

\* C16 witness: all eleven images were pushed and the index upload
\* succeeded.
C16_Witness ==
    /\ op = "GenerateOCIIndex"
    /\ variant = "proxy"
    /\ pc = "done"
    /\ runErr = ""
    /\ calls # << >>
    /\ calls[Len(calls)].kind = "index"
    /\ Succeeded(Len(calls))
    /\ Len(calls[Len(calls)].doc[1].Manifests) = 11


\* C17: after any sequence of Reads, N() is the number of bytes returned
\* so far and the hash is the hash of their concatenation, also when the
\* last Read returned bytes together with an error; the error Read
\* returns is the underlying reader's.
C17_ReaderAccumulates ==
    rpc = "open"
    => /\ N(reader) = Len(got)
       /\ Sum256(SHA256Hash(reader)) = Sum256(got)
       /\ lastRead.err = lastRead.baseErr

\* C17 witness: after an earlier Read that returned bytes, a Read returned
\* bytes together with a failure.
C17_Witness ==
    /\ rpc = "open"
    /\ reads >= 2
    /\ lastRead.n > 0
    /\ lastRead.err = ErrRead
    /\ Len(got) > lastRead.n
    /\ N(reader) = Len(got)


\* call k is the manifest upload of a pushOCIArtifact build
ArtifactManifestAt(k) ==
    calls[k].fn = "pushOCIArtifact" /\ calls[k].kind = "manifest"

\* the table entry call k was issued for
EntryOf(k) == opts[calls[k].build + 1]

\* C18: the config descriptor of the manifest an artifact build uploads is
\* the scratch descriptor if and only if configIsScratch is true; when it
\* is false the manifest references the descriptor of the real config
\* that the build marshalled and uploaded.
C18_ConfigFollowsOption ==
    \A k \in 1..Len(calls) :
        ArtifactManifestAt(k)
        => /\ (calls[k].doc[1].Config = ScratchDescriptor)
                <=> EntryOf(k).configIsScratch
           /\ ~EntryOf(k).configIsScratch
                => \E m \in 1..(k - 1) :
                      /\ calls[m].fn = "pushOCIArtifact"
                      /\ calls[m].build = calls[k].build
                      /\ calls[m].kind = "config"
                      /\ calls[k].doc[1].Config = calls[m].desc

\* C19: the manifest uploaded for a table entry carries a subject if and
\* only if the entry has hasSubject set.
C19_SubjectIffOption ==
    \A k \in 1..Len(calls) :
        ArtifactManifestAt(k)
        => ((calls[k].doc[1].Subject # << >>) <=> EntryOf(k).hasSubject)

\* call k is the successful manifest upload of the subject image
SubjectManifestAt(k) == ImageManifestAt(k, SubjectBuild)

\* C20: the subject image is pushed once; when the build of a table entry
\* starts, the subject's manifest upload has succeeded and nothing of the
\* subject is uploaded afterwards; the manifest of every entry with
\* hasSubject and subjectInRegistry references exactly the descriptor the
\* subject push returned.
C20_SubjectFirst ==
    op = "GenerateOCIArtifacts"
    => /\ \A k1, k2 \in 1..Len(calls) :
            (/\ calls[k1].build = SubjectBuild
             /\ calls[k2].build = SubjectBuild
             /\ calls[k1].kind = calls[k2].kind
             /\ calls[k1].idx = calls[k2].idx)
            => k1 = k2
       /\ (pc \in {"loop", "art_config", "art_layer", "art_manifest", "art_ret"}
           \/ results # << >>)
            => \E m \in 1..Len(calls) :
                  /\ SubjectManifestAt(m)
                  /\ subjectDesc = calls[m].desc
                  /\ \A k \in 1..Len(calls) :
                        calls[k].build = SubjectBuild <=> k <= m
       /\ \A k \in 1..Len(calls) :
            (/\ ArtifactManifestAt(k)
             /\ EntryOf(k).hasSubject
             /\ EntryOf(k).subjectInRegistry)
            => \E m \in 1..(k - 1) :
                  /\ SubjectManifestAt(m)
                  /\ calls[k].doc[1].Subject = <<calls[m].desc>>

\* C20 witness: the manifest of a later table entry has been uploaded with
\* the descriptor of the subject push as its subject.
C20_Witness ==
    /\ op = "GenerateOCIArtifacts"
    /\ \E k \in 1..Len(calls), m \in 1..Len(calls) :
        /\ ArtifactManifestAt(k)
        /\ calls[k].build >= 1
        /\ EntryOf(k).hasSubject
        /\ EntryOf(k).subjectInRegistry
        /\ Succeeded(k)
        /\ SubjectManifestAt(m)
        /\ m < k
        /\ calls[k].doc[1].Subject = <<calls[m].desc>>


\* the error the push capability gave in an upload with this outcome
CapabilityError(outcome) ==
    IF outcome = "pusherr" THEN ErrPush
    ELSE IF outcome = "copyerr" THEN ErrCopy
    ELSE IF outcome = "rejected" THEN ErrRejected
    ELSE ""

\* C21: when the push capability fails in an upload of a simple-image or
\* artifact build, other than with already-exists, uploadBytes returns
\* that error, the build issues no upload after it and returns that
\* error, and in the matrix that error is what the runner classifies.
C21_ErrorsPropagate ==
    \A k \in 1..Len(calls) :
        (/\ calls[k].fn \in {"pushOCIImage", "pushOCIArtifact"}
         /\ calls[k].outcome \in {"pusherr", "copyerr", "rejected"})
        => /\ calls[k].err = CapabilityError(calls[k].outcome)
           /\ \A m \in (k + 1)..Len(calls) :
                ~(calls[m].fn = calls[k].fn /\ calls[m].build = calls[k].build)
           /\ (/\ pc \in {"img_ret", "art_ret"}
               /\ frame.fn = calls[k].fn
               /\ frame.build = calls[k].build)
                => ret.err = calls[k].err
           /\ (calls[k].fn = "pushOCIArtifact" /\ Len(results) > calls[k].build)
                => results[calls[k].build + 1].err = calls[k].err

\* C21 witness: the copy of an upload of a table entry failed, and the
\* runner has classified that entry with the copy's error.
C21_Witness ==
    \E k \in 1..Len(calls) :
        /\ calls[k].fn = "pushOCIArtifact"
        /\ calls[k].outcome = "copyerr"
        /\ Len(results) > calls[k].build
        /\ results[calls[k].build + 1].err = ErrCopy


\* in basic and no-auth mode every request issued is the real request, in
\* basic mode with the credentials newTransport was given and in no-auth
\* mode without an Authorization header
DirectRequestsOnly ==
    \A k \in 1..Len(trips) :
        /\ args.at \in {basicAuth, noAuth} => trips[k].role = "real"
        /\ args.at = basicAuth
            => trips[k].req.Authorization
                 = "Basic " \o args.username \o ":" \o args.password
        /\ args.at = noAuth => trips[k].req.Authorization = ""

\* C22 as stated: in basic mode roundTrip issues exactly one request, with
\* basic credentials from the configured username and password and with no
\* probe or token request; in no-auth mode exactly one request without an
\* Authorization header.
C22_DirectExactlyOne ==
    /\ DirectRequestsOnly
    /\ (args.at \in {basicAuth, noAuth} /\ tpc = "done") => Len(trips) = 1

\* C22 amended: as stated when http.NewRequest accepts the method and URL;
\* when it rejects them roundTrip issues no request in either mode.
C22_DirectOneIfBuilt ==
    /\ DirectRequestsOnly
    /\ (args.at \in {basicAuth, noAuth} /\ tpc = "done")
        => IF NewRequest(regReq.method, regReq.url, regReq.body).err = ""
           THEN Len(trips) = 1
           ELSE trips = << >> /\ out.err # ""

\* C22 witness: a basic-mode call has returned the response to its one
\* request, which carried the credentials.
C22_Witness ==
    /\ args.at = basicAuth
    /\ tpc = "done"
    /\ out.err = ""
    /\ Len(trips) = 1
    /\ trips[1].role = "real"
    /\ trips[1].req.Authorization = "Basic u:p"


\* how many of the finished calls issued a request in this role
RECURSIVE PastWith(_, _)
PastWith(role, n) ==
    IF n = 0 THEN 0
    ELSE PastWith(role, n - 1)
            + (IF \E k \in 1..Len(past[n].roles) : past[n].roles[k] = role
               THEN 1 ELSE 0)

\* how many of the finished calls returned without an error
RECURSIVE PastSucceeded(_)
PastSucceeded(n) ==
    IF n = 0 THEN 0
    ELSE PastSucceeded(n - 1) + (IF past[n].err = "" THEN 1 ELSE 0)

\* C23: nothing is kept from one bearer-mode roundTrip call to the next:
\* every finished call that succeeded issued its own probe, token request
\* and real request, so k successful calls made k probes and k token
\* requests, and the real request of the running call carries the token
\* of the token response received in this same call.
C23_NoCaching ==
    args.at = bearerAuth
    => /\ \A n \in 1..Len(past) :
            past[n].err = "" => past[n].roles = <<"probe", "token", "real">>
       /\ PastWith("probe", Len(past)) >= PastSucceeded(Len(past))
       /\ PastWith("token", Len(past)) >= PastSucceeded(Len(past))
       /\ PastWith("probe", Len(past)) <= Len(past)
       /\ \A k \in 1..Len(trips) :
            trips[k].role = "real"
            => /\ k = 3
               /\ trips[1].role = "probe"
               /\ trips[2].role = "token"
               /\ trips[2].res.err = ""
               /\ trips[3].req.Authorization
                    = "Bearer " \o Unmarshal(trips[2].res.info.Response.Body).AccessToken

\* C23 witness: the first call succeeded with one token, and the second
\* call has succeeded with the other token, obtained by its own probe and
\* token request.
C23_Witness ==
    /\ args.at = bearerAuth
    /\ Len(past) = 1
    /\ past[1].err = ""
    /\ past[1].auth = "Bearer tokA"
    /\ tpc = "done"
    /\ out.err = ""
    /\ Len(trips) = 3
    /\ trips[3].req.Authorization = "Bearer tokB"


\* the uploads of the scratch blob issued so far
ScratchUploads ==
    {k \in 1..Len(calls) : calls[k].desc.Digest = ScratchDescriptor.Digest}

\* the build has reached its manifest upload
ManifestIssued == \E k \in 1..Len(calls) : calls[k].kind = "manifest"

\* C24: one pushOCIArtifact build uploads the scratch blob at most once: as
\* the config when configIsScratch is set, and otherwise once, before the
\* first layer, when the layers are scratch and there is at least one;
\* every scratch layer of the manifest is the scratch descriptor, however
\* many there are.
C24_ScratchOnce ==
    /\ Cardinality(ScratchUploads) <= 1
    /\ \A k \in ScratchUploads :
        IF frame.opts.configIsScratch
        THEN calls[k].kind = "config" /\ k = 1
        ELSE /\ calls[k].kind = "scratch"
             /\ calls[k].idx = 0
             /\ frame.opts.layersAreScratch
             /\ frame.opts.layercount >= 1
             /\ k = 2
    /\ ManifestIssued
        => /\ (ScratchUploads # {})
                <=> \/ frame.opts.configIsScratch
                    \/ frame.opts.layersAreScratch /\ frame.opts.layercount >= 1
           /\ frame.opts.layersAreScratch
                => \A n \in 1..Len(frame.layerDescs) :
                        frame.layerDescs[n] = ScratchDescriptor

\* C24 witness: a build with a real config and several scratch layers has
\* uploaded its manifest after one upload of the scratch blob.
C24_Witness ==
    /\ ~frame.opts.configIsScratch
    /\ frame.opts.layersAreScratch
    /\ frame.opts.layercount >= 2
    /\ pc = "art_ret"
    /\ ret.err = ""
    /\ Cardinality(ScratchUploads) = 1


\* C25: the manifest pushOCIArtifact uploads carries the artifact type if
\* and only if includesArtifactType is set, and lists exactly layercount
\* layer descriptors.
C25_TypeAndLayers ==
    \A k \in 1..Len(calls) :
        calls[k].kind = "manifest"
        => /\ calls[k].doc[1].ArtifactType
                = (IF frame.opts.includesArtifactType THEN imagegenArtifactType
                   ELSE "")
           /\ Len(calls[k].doc[1].Layers) = frame.opts.layercount
           /\ calls[k].data = MarshalManifest(calls[k].doc[1])

\* C25 witness: a manifest without artifact type and with two or more
\* layers has been uploaded.
C25_Witness ==
    \E k \in 1..Len(calls) :
        /\ calls[k].kind = "manifest"
        /\ Succeeded(k)
        /\ ~frame.opts.includesArtifactType
        /\ frame.opts.layercount >= 2
        /\ calls[k].doc[1].ArtifactType = ""
        /\ Len(calls[k].doc[1].Layers) = frame.opts.layercount


\* C26: once r.Base.RoundTrip has returned a response, its body is closed
\* exactly once when RoundTrip has returned, whether the body was read to
\* its end, the read failed or the Location header did not parse, and it
\* is not closed before; and every uploadBytes call that obtained a writer
\* closed it, whether the copy succeeded or failed.
C26_Released ==
    /\ closes <= 1
    /\ hpc = "done" => (closes = 1 <=> resp.obtained)
    /\ hpc \in {"base", "read", "location"} => closes = 0
    /\ \A k \in 1..Len(calls) :
        /\ calls[k].writer => calls[k].closed
        /\ calls[k].closed => calls[k].writer
        /\ calls[k].outcome \in {"ok", "copyerr", "rejected"} => calls[k].writer

\* C26 witness: the read of the body failed after some bytes, and
\* RoundTrip has returned that error with the body closed.
C26_Witness ==
    /\ hpc = "done"
    /\ resp.obtained
    /\ lastRead.err = ErrRead
    /\ hout.err = ErrRead
    /\ got # << >>
    /\ closes = 1


\* the cases the runner logged as unexpected errors
UnexpectedErrors ==
    {n \in 1..Len(results) : results[n].err # "" /\ ~results[n].errorExpected}

\* C27: GenerateOCIArtifacts returns an error if and only if the push of
\* the subject image failed, and then no table entry was attempted; once
\* the subject push succeeded it returns nil after all eight entries,
\* however many of them were logged as unexpected errors.
C27_ReturnValue ==
    op = "GenerateOCIArtifacts"
    => /\ pc # "done" => runErr = ""
       /\ pc = "done"
            => /\ (runErr # "") <=> ~\E m \in 1..Len(calls) : SubjectManifestAt(m)
               /\ runErr # ""
                    => /\ results = << >>
                       /\ runErr = ret.err
                       /\ \A k \in 1..Len(calls) : calls[k].fn # "pushOCIArtifact"
               /\ runErr = "" => Len(results) = Len(opts)

\* C27 witness: the command has returned nil although three or more
\* cases, the one before the last among them, were logged as unexpected
\* errors.
C27_Witness ==
    /\ op = "GenerateOCIArtifacts"
    /\ pc = "done"
    /\ runErr = ""
    /\ Cardinality(UnexpectedErrors) >= 3
    /\ Len(opts) - 1 \in UnexpectedErrors


\* C28: no entry of the table has hasSubject without subjectInRegistry, so
\* the subject handed to every artifact build of a run is the descriptor
\* of the subject image or the empty descriptor, and no manifest is
\* uploaded with any other subject.
C28_NoSyntheticSubject ==
    op = "GenerateOCIArtifacts"
    => /\ \A n \in 1..Len(opts) : opts[n].hasSubject => opts[n].subjectInRegistry
       /\ frame.fn = "pushOCIArtifact"
            => frame.subject \in {subjectDesc, EmptyDescriptor}
       /\ \A k \in 1..Len(calls) :
            ArtifactManifestAt(k)
            => \/ calls[k].doc[1].Subject = <<EmptyDescriptor>>
               \/ \E m \in 1..(k - 1) :
                    /\ SubjectManifestAt(m)
                    /\ calls[k].doc[1].Subject = <<calls[m].desc>>

\* C28 witness: manifests have been uploaded with the subject image as
\* subject and, for an entry without hasSubject, with the empty
\* descriptor.
C28_Witness ==
    /\ op = "GenerateOCIArtifacts"
    /\ \E k1, k2 \in 1..Len(calls) :
        /\ ArtifactManifestAt(k1)
        /\ ArtifactManifestAt(k2)
        /\ calls[k1].doc[1].Subject = <<subjectDesc>>
        /\ subjectDesc # EmptyDescriptor
        /\ ~EntryOf(k2).hasSubject
        /\ calls[k2].doc[1].Subject = <<EmptyDescriptor>>

====
